---- MODULE Spec2Model ----
(***************************************************************************)
(* A model of qimba's job runner (src/qimba/core.py, class Job), of its     *)
(* sample sheet (src/qimba/formats.py, class SampleSheet) and of the        *)
(* commands make-mapping and merge (src/qimba/commands).                    *)
(*                                                                         *)
(* Job.run() is modelled step by step, one action per statement that       *)
(* touches the file system, so that the runs of two Jobs can interleave.   *)
(* The file system is the set of existing paths plus the content of every  *)
(* file as a sequence of log entries.                                      *)
(***************************************************************************)
EXTENDS Integers, Sequences, FiniteSets, TLC

VARIABLES
    job,        \* Job.__init__: the immutable fields of every Job
    fault,      \* environment: what fails on a path ("none", "noopen", "nowrite")
    fs0,        \* the paths that exist before the first run()
    fs,         \* the paths that exist now
    logs,       \* content of every file: a sequence of log entries
    pc,         \* position of every Job inside run()
    check,      \* the check argument of the current run() call
    runs,       \* number of run() calls started on every Job
    spawns,     \* processes spawned by the current run() call
    handles,    \* log file handles opened by run() and not closed
    outcome,    \* how the last run() call ended
    sheet,      \* the SampleSheet at hand: its columns and its samples, in order
    file,       \* the lines of the mapping file
    saved,      \* the SampleSheet that save_to_file wrote into file, if any
    ret,        \* what the last SampleSheet operation returned or raised
    op,         \* the last SampleSheet operation
    arg,        \* the arguments of the last SampleSheet operation
    got,        \* the sample or attribute value that the last lookup returned
    origin,     \* where the sheet at hand comes from: "new", "load", a sort
                \* criterion, or "changed" once samples were added or removed
    dir,        \* make-mapping: the files of INPUT_DIR, in the order glob yields them
    opts,       \* make-mapping: the options of the command line
    scanned,    \* collect_read_files: the number of files it has looked at
    read_pairs, \* collect_read_files: sample id -> forward and reverse file, in
                \* insertion order
    name_counts,\* the accumulator of rename_sample_id: base name -> count
    final_ids,  \* the calls of rename_sample_id so far: raw id and returned id
    errors,     \* make-mapping: the errors collected while the sheet is built
    stderr,     \* what the command wrote to standard error
    status,     \* the command: "idle", "running", "exit0" or "exit1"
    merge       \* merge: whether the final output file exists, and the
                \* temporary outputs gathered for it

jobVars == <<job, fault, fs0, fs, logs, pc, check, runs, spawns, handles, outcome>>

sheetVars == <<sheet, file, saved, ret, op, arg, got, origin>>

cmdVars == <<dir, opts, scanned, read_pairs, name_counts, final_ids, errors,
             stderr, status, merge>>

vars == <<jobVars, sheetVars, cmdVars>>

-----------------------------------------------------------------------------
(* Bounds and value sets                                                    *)

MaxRuns == 2

Jobs == {1, 2}

\* The paths a Job may name as required input, as required output and as log
\* file.  The three sets overlap: an output may be an input, a log an output.
InPaths == {"a", "b"}

OutPaths == {"b", "c"}

LogPaths == {"c", "d"}

\* merge: the temporary output and the two logs of the Job of every sample,
\* in the temporary directory that the command makes for itself.
Tmp ==
    [j \in Jobs |->
        IF j = 1 THEN [output |-> "t1", log_stderr |-> "e1", log_stdout |-> "o1"]
                 ELSE [output |-> "t2", log_stderr |-> "e2", log_stdout |-> "o2"]]

Paths ==
    InPaths \cup OutPaths \cup LogPaths
    \cup UNION {{Tmp[j].output, Tmp[j].log_stderr, Tmp[j].log_stdout} : j \in Jobs}

None == "None"

ExitCodes == {0, 1, 2}

Streams == <<"stderr", "stdout">>

\* The duplicate-free lists of the paths in S, of every length.
ListsOver(S) ==
    UNION {{l \in [1..n -> S] : \A i, k \in 1..n : l[i] = l[k] => i = k} :
           n \in 0..Cardinality(S)}

Range(s) == {s[i] : i \in 1..Len(s)}

IsPrefix(s, t) == Len(s) <= Len(t) /\ \A i \in 1..Len(s) : s[i] = t[i]

-----------------------------------------------------------------------------
(* Job: pure helpers                                                        *)

\* The first path of l, in declaration order, that is not in files.
FirstMissing(l, files) ==
    IF \A i \in 1..Len(l) : l[i] \in files
    THEN None
    ELSE l[CHOOSE i \in 1..Len(l) :
               l[i] \notin files /\ \A k \in 1..(i - 1) : l[k] \in files]

LastMissing(l, files) ==
    IF \A i \in 1..Len(l) : l[i] \in files
    THEN None
    ELSE l[CHOOSE i \in 1..Len(l) :
               l[i] \notin files /\ \A k \in (i + 1)..Len(l) : l[k] \in files]

\* _validate_inputs: None, or the path named by the FileNotFoundError.
NoInputCheck(j) == None

ValidateInputs(j) == FirstMissing(job[j].required_input, fs)

\* _validate_outputs: None, or the path named by the RuntimeError.
LastOutputCheck(j) == LastMissing(job[j].required_output, fs)

SharedOutputCheck(j) ==
    FirstMissing(job[1].required_output \o job[2].required_output, fs)

ValidateOutputs(j) == FirstMissing(job[j].required_output, fs)

\* The log path of a stream, None when the stream is captured in memory.
LogOf(c, stream) == IF stream = "stderr" THEN c.log_stderr ELSE c.log_stdout

\* [self.log_stderr, self.log_stdout] without the unset ones, as stream names.
StderrOnly(j) ==
    SelectSeq(Streams, LAMBDA s : s = "stderr" /\ LogOf(job[j], s) # None)

ConfiguredStreams(j) == SelectSeq(Streams, LAMBDA s : LogOf(job[j], s) # None)

\* The streams _write_command_to_logs writes the header for (core.py:76-77).
HeaderStreams(j) == ConfiguredStreams(j)

ConfiguredLogs(j) == {LogOf(job[j], s) : s \in Range(ConfiguredStreams(j))}

Entry(kind, j, stream) ==
    [kind |-> kind, job |-> j, run |-> runs[j], stream |-> stream]

Ended(kind, path, code) == [kind |-> kind, path |-> path, code |-> code]

NoOutcome == Ended("None", None, 0)

\* The entries `kind` appended to the logs of the streams in `ss`, in order.
RECURSIVE Append2Logs(_, _, _, _)
Append2Logs(content, j, kind, ss) ==
    IF ss = <<>> THEN content
    ELSE LET f == LogOf(job[j], Head(ss))
         IN Append2Logs([content EXCEPT ![f] = Append(@, Entry(kind, j, Head(ss)))],
                        j, kind, Tail(ss))

-----------------------------------------------------------------------------
(* Job.run(), step by step                                                  *)

JobFrame == UNCHANGED <<sheetVars, cmdVars>>

Raise(j, e) ==
    /\ pc' = [pc EXCEPT ![j] = "done"]
    /\ outcome' = [outcome EXCEPT ![j] = e]

\* finally: close the handles this call holds (core.py:131-136).
KeepHandles(j) == handles[j]

CloseHandles(j) == {h \in handles[j] : h.run # runs[j]}

\* run(check): _validate_inputs and _ensure_log_dirs (core.py:96-100).
Run(j, chk) ==
    /\ pc[j] \in {"idle", "done"}
    /\ runs[j] < MaxRuns
    /\ runs' = [runs EXCEPT ![j] = @ + 1]
    /\ check' = [check EXCEPT ![j] = chk]
    /\ spawns' = [spawns EXCEPT ![j] = 0]
    /\ IF ValidateInputs(j) # None
       THEN Raise(j, Ended("FailedInput", ValidateInputs(j), 0))
       ELSE /\ pc' = [pc EXCEPT ![j] = "open_stderr"]
            /\ outcome' = [outcome EXCEPT ![j] = NoOutcome]
    /\ UNCHANGED <<job, fault, fs0, fs, logs, handles>>
    /\ JobFrame

\* open(self.log_stderr, 'a') / open(self.log_stdout, 'a'), outside the try
\* block (core.py:103-110): an open that fails ends the call at once, and the
\* finally clause is not in force yet.
OpenLog(j, stream, next) ==
    /\ pc[j] = "open_" \o stream
    /\ LET f == LogOf(job[j], stream)
       IN IF f = None
          THEN /\ pc' = [pc EXCEPT ![j] = next]
               /\ UNCHANGED <<fs, handles, outcome>>
          ELSE IF fault[f] = "noopen"
          THEN /\ Raise(j, Ended("OSError", f, 0))
               /\ UNCHANGED <<fs, handles>>
          ELSE /\ pc' = [pc EXCEPT ![j] = next]
               /\ fs' = fs \cup {f}
               /\ handles' = [handles EXCEPT
                                ![j] = @ \cup {[stream |-> stream, run |-> runs[j]]}]
               /\ UNCHANGED outcome
    /\ UNCHANGED <<job, fault, fs0, logs, check, runs, spawns>>
    /\ JobFrame

OpenStderr(j) == OpenLog(j, "stderr", "open_stdout")

OpenStdout(j) == OpenLog(j, "stdout", "header")

\* _write_command_to_logs (core.py:71-79, called at 114): the header goes to
\* the log of stderr, then to the log of stdout, each through a handle of its
\* own that the with statement closes.  The streams before the first one whose
\* write fails have their header.
WritableBefore(j) ==
    LET ss == HeaderStreams(j)
        bad == {i \in 1..Len(ss) : fault[LogOf(job[j], ss[i])] = "nowrite"}
    IN IF bad = {} THEN ss
       ELSE SubSeq(ss, 1, (CHOOSE i \in bad : \A k \in bad : i <= k) - 1)

WriteHeader(j) ==
    /\ pc[j] = "header"
    /\ logs' = Append2Logs(logs, j, "hdr", WritableBefore(j))
    /\ IF WritableBefore(j) # HeaderStreams(j)
       THEN /\ Raise(j, Ended("OSError",
                              LogOf(job[j], HeaderStreams(j)[Len(WritableBefore(j)) + 1]), 0))
            /\ handles' = [handles EXCEPT ![j] = CloseHandles(j)]
       ELSE /\ pc' = [pc EXCEPT ![j] = "spawn"]
            /\ UNCHANGED <<handles, outcome>>
    /\ UNCHANGED <<job, fault, fs0, fs, check, runs, spawns>>
    /\ JobFrame

\* subprocess.run (core.py:117-124): the process is started, or the start
\* fails (no such executable) and the error leaves through finally.
CanRespawn(j) ==
    \/ pc[j] = "spawn"
    \/ pc[j] = "done" /\ outcome[j].kind = "FailedProcess" /\ spawns[j] < 2

CanSpawn(j) == pc[j] = "spawn"

Spawn(j) ==
    /\ CanSpawn(j)
    /\ IF job[j].spawnable
       THEN /\ spawns' = [spawns EXCEPT ![j] = @ + 1]
            /\ pc' = [pc EXCEPT ![j] = "running"]
            /\ UNCHANGED <<handles, outcome>>
       ELSE /\ Raise(j, Ended("OSError", None, 0))
            /\ handles' = [handles EXCEPT ![j] = CloseHandles(j)]
            /\ UNCHANGED spawns
    /\ UNCHANGED <<job, fault, fs0, fs, logs, check, runs>>
    /\ JobFrame

\* The external process runs to its end: it creates files and writes to the
\* streams it was given; a stream with a log goes to that log, in append mode.
ProcessExit(j) ==
    /\ pc[j] = "running"
    /\ fs' = fs \cup job[j].creates
    /\ logs' = Append2Logs(logs, j, "out", ConfiguredStreams(j))
    /\ pc' = [pc EXCEPT ![j] = "exited"]
    /\ UNCHANGED <<job, fault, fs0, check, runs, spawns, handles, outcome>>
    /\ JobFrame

\* check=check of subprocess.run, then _validate_outputs, return and finally
\* (core.py:122-136).
NeverChecksExit(j) == FALSE

ChecksExit(j) == check[j]

Finish(j) ==
    /\ pc[j] = "exited"
    /\ IF ChecksExit(j) /\ job[j].exit # 0
       THEN Raise(j, Ended("FailedProcess", None, job[j].exit))
       ELSE IF ValidateOutputs(j) # None
       THEN Raise(j, Ended("FailedOutput", ValidateOutputs(j), job[j].exit))
       ELSE Raise(j, Ended("Succeeded", None, job[j].exit))
    /\ handles' = [handles EXCEPT ![j] = CloseHandles(j)]
    /\ UNCHANGED <<job, fault, fs0, fs, logs, check, runs, spawns>>
    /\ JobFrame

-----------------------------------------------------------------------------
(* Specifications of the job runner                                         *)

\* Job.__init__ (core.py:13-47) with what its command does when run.
JobConfigs(ins, outs) ==
    {c \in [required_input : ins, required_output : outs,
            log_stderr : LogPaths \cup {None}, log_stdout : LogPaths \cup {None},
            spawnable : BOOLEAN, exit : ExitCodes, creates : SUBSET OutPaths] :
        /\ c.creates \subseteq Range(c.required_output)
        /\ ~c.spawnable => c.exit = 0 /\ c.creates = {}}

NoJob ==
    [required_input |-> <<>>, required_output |-> <<>>, log_stderr |-> None,
     log_stdout |-> None, spawnable |-> TRUE, exit |-> 0, creates |-> {}]

Faults(used) ==
    {[p \in Paths |-> IF p \in used THEN f[p] ELSE "none"] :
        f \in [used -> {"none", "noopen", "nowrite"}]}

LogsOfConfig(c) == {c.log_stderr, c.log_stdout} \ {None}

\* No SampleSheet is at hand while Jobs run.
SheetIdle ==
    /\ sheet = [columns |-> <<>>, samples |-> <<>>]
    /\ file = <<>>
    /\ saved = <<>>
    /\ ret = [kind |-> "None", sheet |-> <<>>, line |-> 0]
    /\ op = "None"
    /\ arg = [id |-> <<>>, attr |-> <<>>, by |-> "None", absolute |-> FALSE]
    /\ got = [sample |-> <<>>, attr |-> <<>>]
    /\ origin = "new"

\* No command is running.
CmdIdle ==
    /\ dir = <<>>
    /\ opts = [ext |-> <<>>, strip |-> <<>>, tag_for |-> <<>>, tag_rev |-> <<>>,
               safe_char |-> <<>>, absolute |-> FALSE, dont_rename |-> FALSE]
    /\ scanned = 0
    /\ read_pairs = <<>>
    /\ name_counts = <<>>
    /\ final_ids = <<>>
    /\ errors = <<>>
    /\ stderr = <<>>
    /\ status = "idle"
    /\ merge = [output |-> FALSE, outputs |-> <<>>]

JobStart ==
    /\ SheetIdle
    /\ fs = fs0
    /\ logs = [p \in Paths |-> <<>>]
    /\ pc = [j \in Jobs |-> "idle"]
    /\ check = [j \in Jobs |-> TRUE]
    /\ runs = [j \in Jobs |-> 0]
    /\ spawns = [j \in Jobs |-> 0]
    /\ handles = [j \in Jobs |-> {}]
    /\ outcome = [j \in Jobs |-> NoOutcome]
    /\ CmdIdle

\* One Job, run() called on it up to MaxRuns times, one call after the other.
Init ==
    /\ \E c \in JobConfigs(ListsOver(InPaths), ListsOver(OutPaths)) :
         /\ job = [j \in Jobs |-> IF j = 1 THEN c ELSE NoJob]
         /\ fault \in Faults(LogsOfConfig(c))
    /\ fs0 \in SUBSET (InPaths \cup OutPaths)
    /\ JobStart

Next ==
    \E j \in {1} :
        \/ \E chk \in BOOLEAN : Run(j, chk)
        \/ OpenStderr(j)
        \/ OpenStdout(j)
        \/ WriteHeader(j)
        \/ Spawn(j)
        \/ ProcessExit(j)
        \/ Finish(j)

Spec == Init /\ [][Next]_vars

-----------------------------------------------------------------------------
(* Two Jobs run at the same time                                            *)

\* What one run() of Job j does when nothing else touches the file system:
\* the paths that exist once its logs are open, how the call ends, and what
\* it leaves in file f.
SoloOpened(j) ==
    LET ss == ConfiguredStreams(j)
        bad == {i \in 1..Len(ss) : fault[LogOf(job[j], ss[i])] = "noopen"}
    IN IF bad = {} THEN ss
       ELSE SubSeq(ss, 1, (CHOOSE i \in bad : \A k \in bad : i <= k) - 1)

SoloReaches(j) ==
    IF FirstMissing(job[j].required_input, fs0) # None THEN "input"
    ELSE IF SoloOpened(j) # ConfiguredStreams(j) THEN "open"
    ELSE IF WritableBefore(j) # HeaderStreams(j) THEN "header"
    ELSE IF ~job[j].spawnable THEN "spawn"
    ELSE "exit"

SoloFiles(j) ==
    fs0 \cup {LogOf(job[j], s) : s \in Range(SoloOpened(j))}
        \cup (IF SoloReaches(j) = "exit" THEN job[j].creates ELSE {})

SoloOutcome(j) ==
    LET c == job[j]
        at == SoloReaches(j)
    IN CASE at = "input" ->
              Ended("FailedInput", FirstMissing(c.required_input, fs0), 0)
         [] at = "open" ->
              Ended("OSError", LogOf(c, ConfiguredStreams(j)[Len(SoloOpened(j)) + 1]), 0)
         [] at = "header" ->
              Ended("OSError", LogOf(c, HeaderStreams(j)[Len(WritableBefore(j)) + 1]), 0)
         [] at = "spawn" -> Ended("OSError", None, 0)
         [] OTHER ->
              IF check[j] /\ c.exit # 0
              THEN Ended("FailedProcess", None, c.exit)
              ELSE IF FirstMissing(c.required_output, SoloFiles(j)) # None
              THEN Ended("FailedOutput",
                         FirstMissing(c.required_output, SoloFiles(j)), c.exit)
              ELSE Ended("Succeeded", None, c.exit)

SoloLog(j, f) ==
    LET empty == [p \in Paths |-> <<>>]
        at == SoloReaches(j)
        hdr == IF at \in {"header", "spawn", "exit"}
               THEN Append2Logs(empty, j, "hdr", WritableBefore(j))
               ELSE empty
    IN IF at = "exit"
       THEN Append2Logs(hdr, j, "out", ConfiguredStreams(j))[f]
       ELSE hdr[f]

\* The two Jobs of a batch: each with at most one required input and one
\* required output, stdout logged, on a file system without faults.  The
\* caller keeps their required outputs and their log files disjoint.
BatchConfigs ==
    {c \in JobConfigs({l \in ListsOver(InPaths) : Len(l) <= 1},
                     {l \in ListsOver(OutPaths) : Len(l) <= 1}) :
        /\ c.spawnable
        /\ c.exit \in {0, 1}
        /\ c.log_stderr = None}

ConcInit ==
    /\ \E c1, c2 \in BatchConfigs :
         /\ Range(c1.required_output) \cap Range(c2.required_output) = {}
         /\ LogsOfConfig(c1) \cap LogsOfConfig(c2) = {}
         /\ job = [j \in Jobs |-> IF j = 1 THEN c1 ELSE c2]
    /\ fault = [p \in Paths |-> "none"]
    /\ fs0 \in SUBSET InPaths
    /\ JobStart

\* Every Job is run once, and the steps of the two calls interleave.
ConcNext ==
    \E j \in Jobs :
        \/ pc[j] = "idle" /\ Run(j, TRUE)
        \/ OpenStderr(j)
        \/ OpenStdout(j)
        \/ WriteHeader(j)
        \/ Spawn(j)
        \/ ProcessExit(j)
        \/ Finish(j)

SpecConc == ConcInit /\ [][ConcNext]_vars

-----------------------------------------------------------------------------
(* Text: a string is the sequence of its characters                         *)

SP == " "

TAB == "\t"

QUOTE == "\""

SLASH == "/"

IsSpace(c) == c \in {SP, TAB}

RECURSIVE LStrip(_)
LStrip(s) == IF s # <<>> /\ IsSpace(Head(s)) THEN LStrip(Tail(s)) ELSE s

RECURSIVE RStrip(_)
RStrip(s) ==
    IF s # <<>> /\ IsSpace(s[Len(s)]) THEN RStrip(SubSeq(s, 1, Len(s) - 1)) ELSE s

\* str.strip()
Strip(s) == RStrip(LStrip(s))

\* pathlib.Path(text), for texts without inner slashes: the empty text is ".",
\* trailing slashes go.
RECURSIVE PathOf(_)
PathOf(s) ==
    IF s = <<>> THEN <<".">>
    ELSE IF Len(s) > 1 /\ s[Len(s)] = SLASH THEN PathOf(SubSeq(s, 1, Len(s) - 1))
    ELSE s

Cwd == <<SLASH, "w">>

\* Path.absolute()
Absolute(p) ==
    IF p[1] = SLASH THEN p
    ELSE IF p = <<".">> THEN Cwd
    ELSE Cwd \o <<SLASH>> \o p

\* An optional value: <<>> is None, <<x>> is x.
Nothing == <<>>

Some(x) == <<x>>

-----------------------------------------------------------------------------
(* csv.writer and csv.reader with delimiter='\t' (formats.py:120, 182)      *)

NeedsQuote(cell) == \E i \in 1..Len(cell) : cell[i] \in {TAB, QUOTE}

RECURSIVE DoubleQuotes(_)
DoubleQuotes(cell) ==
    IF cell = <<>> THEN <<>>
    ELSE (IF Head(cell) = QUOTE THEN <<QUOTE, QUOTE>> ELSE <<Head(cell)>>)
             \o DoubleQuotes(Tail(cell))

WriteCell(cell) ==
    IF NeedsQuote(cell) THEN <<QUOTE>> \o DoubleQuotes(cell) \o <<QUOTE>> ELSE cell

RECURSIVE JoinCells(_)
JoinCells(row) ==
    IF Len(row) = 1 THEN WriteCell(row[1])
    ELSE WriteCell(Head(row)) \o <<TAB>> \o JoinCells(Tail(row))

\* writer.writerow(row): the line, without its terminator.
WriteRow(row) ==
    IF row = <<>> THEN <<>>
    ELSE IF row = << <<>> >> THEN <<QUOTE, QUOTE>>
    ELSE JoinCells(row)

RECURSIVE Parse(_, _, _, _)
Parse(rest, state, cur, fields) ==
    IF rest = <<>> THEN Append(fields, cur)
    ELSE LET c == Head(rest)
             r == Tail(rest)
         IN CASE state = "start" ->
                   IF c = TAB THEN Parse(r, "start", <<>>, Append(fields, <<>>))
                   ELSE IF c = QUOTE THEN Parse(r, "quoted", <<>>, fields)
                   ELSE Parse(r, "field", <<c>>, fields)
              [] state = "field" ->
                   IF c = TAB THEN Parse(r, "start", <<>>, Append(fields, cur))
                   ELSE Parse(r, "field", Append(cur, c), fields)
              [] state = "quoted" ->
                   IF c = QUOTE THEN Parse(r, "endquote", cur, fields)
                   ELSE Parse(r, "quoted", Append(cur, c), fields)
              [] OTHER ->
                   IF c = QUOTE THEN Parse(r, "quoted", Append(cur, QUOTE), fields)
                   ELSE IF c = TAB THEN Parse(r, "start", <<>>, Append(fields, cur))
                   ELSE Parse(r, "field", Append(cur, c), fields)

\* One row of csv.reader: the cells of a line; a blank line has no cells.
ReadRow(line) == IF line = <<>> THEN <<>> ELSE Parse(line, "start", <<>>, <<>>)

-----------------------------------------------------------------------------
(* SampleSheet (formats.py:34-270)                                          *)

Forward == <<"F", "o", "r", "w", "a", "r", "d">>

Reverse == <<"R", "e", "v", "e", "r", "s", "e">>

REQUIRED_COLUMNS == {Forward, Reverse}

\* SampleSheet(): no columns, no samples.
EmptySheet == [columns |-> <<>>, samples |-> <<>>]

Sample(id, forward, reverse, attributes) ==
    [id |-> id, forward |-> forward, reverse |-> reverse, attributes |-> attributes]

Ids(sh) == {sh.samples[i].id : i \in 1..Len(sh.samples)}

Returned(kind, sh, line) == [kind |-> kind, sheet |-> sh, line |-> line]

AddOrReplace(sh, id, forward, reverse, attributes) ==
    LET new == Sample(id, forward, reverse, attributes)
        old == sh.samples
    IN Returned("ok",
                Some([sh EXCEPT !.samples =
                          IF id \in Ids(sh)
                          THEN [i \in 1..Len(old) |-> IF old[i].id = id THEN new ELSE old[i]]
                          ELSE Append(old, new)]),
                0)

\* add_sample: the sheet with the sample added last, or DuplicateKey.
AddSample(sh, id, forward, reverse, attributes) ==
    IF id \in Ids(sh)
    THEN Returned("DuplicateKey", Nothing, 0)
    ELSE Returned("ok",
                  Some([sh EXCEPT !.samples =
                            Append(@, Sample(id, forward, reverse, attributes))]),
                  0)

\* Sample.get_attr(col) or ''
AttrOrEmpty(sample, col) ==
    IF col \in DOMAIN sample.attributes THEN sample.attributes[col] ELSE <<>>

\* col_idx = {col.strip(): idx for idx, col in enumerate(headers)}
ColNames(headers) == {Strip(headers[i]) : i \in 1..Len(headers)}

ColIdx(headers, col) ==
    CHOOSE i \in 1..Len(headers) :
        /\ Strip(headers[i]) = col
        /\ \A k \in (i + 1)..Len(headers) : Strip(headers[k]) # col

\* The id that load_from_file reads in the first cell of a row.
RowId(row) == Strip(row[1])

SkipsNoRow(row) == FALSE

\* formats.py:151-152: a row without an id is passed over.
SkipsRow(row) == RowId(row) = <<>>

\* formats.py:143-166: the rows from index k on, added to sh one by one.
RECURSIVE LoadRows(_, _, _, _)
LoadRows(sh, headers, rows, k) ==
    IF k > Len(rows) THEN Returned("ok", Some(sh), 0)
    ELSE LET row == rows[k]
         IN IF Len(row) # Len(headers)
            THEN Returned("RowShapeError", Nothing, k)
            ELSE IF SkipsRow(row)
            THEN LoadRows(sh, headers, rows, k + 1)
            ELSE LET reverse == row[ColIdx(headers, Reverse)]
                     attrs == [col \in {c \in ColNames(headers) \ REQUIRED_COLUMNS :
                                           c # headers[1]} |->
                                  row[ColIdx(headers, col)]]
                     added == AddSample(sh, RowId(row),
                                        PathOf(row[ColIdx(headers, Forward)]),
                                        IF Strip(reverse) = <<>> THEN Nothing
                                        ELSE Some(PathOf(reverse)),
                                        attrs)
                 IN IF added.kind # "ok" THEN added
                    ELSE LoadRows(added.sheet[1], headers, rows, k + 1)

\* load_from_file (formats.py:102-168) on the lines of a file.
LoadFromFile(lines) ==
    LET rows == [i \in 1..Len(lines) |-> ReadRow(lines[i])]
    IN IF rows = <<>> THEN Returned("SchemaError", Nothing, 0)
       ELSE LET headers == rows[1]
            IN IF headers = <<>> THEN Returned("IndexError", Nothing, 1)
               ELSE IF Strip(headers[1]) = <<>> THEN Returned("SchemaError", Nothing, 1)
               ELSE IF REQUIRED_COLUMNS \ ColNames(headers) # {}
               THEN Returned("SchemaError", Nothing, 1)
               ELSE LoadRows([columns |-> headers, samples |-> <<>>], headers, rows, 2)

\* formats.py:190-199: the cells of the row of a sample.
Cell(sample, col, absolute_paths) ==
    IF col = Forward
    THEN (IF absolute_paths THEN Absolute(sample.forward) ELSE sample.forward)
    ELSE IF col = Reverse
    THEN (IF sample.reverse = Nothing THEN <<>>
          ELSE IF absolute_paths THEN Absolute(sample.reverse[1])
          ELSE sample.reverse[1])
    ELSE AttrOrEmpty(sample, col)

RowOf(sh, sample, absolute_paths) ==
    <<sample.id>> \o [i \in 1..(Len(sh.columns) - 1) |->
                         Cell(sample, sh.columns[i + 1], absolute_paths)]

\* save_to_file (formats.py:170-200): the lines written.
SaveToFile(sh, absolute_paths) ==
    <<WriteRow(sh.columns)>> \o
        [i \in 1..Len(sh.samples) |-> WriteRow(RowOf(sh, sh.samples[i], absolute_paths))]

-----------------------------------------------------------------------------
(* SampleSheets and mapping files, saved and loaded                         *)

MaxSamples == 2

MaxLines == 3

ID == <<"I", "D">>

Group == <<"G">>

ColumnLists ==
    { <<ID, Forward, Reverse>>,
      <<ID, Forward, Reverse, Group>>,
      <<ID, Group, Reverse, Forward>>,
      <<ID, Forward, Reverse, <<SP>> \o Group>> }

\* The read files of a sample, as add_sample is given them.
ReadTexts ==
    { [forward |-> <<SLASH, "g">>, reverse |-> Nothing],
      [forward |-> <<"f">>, reverse |-> Some(<<"r", SLASH>>)] }

\* The columns that are neither the id column nor Forward nor Reverse.
AttrCols(columns) ==
    {columns[i] : i \in 2..Len(columns)} \ ({columns[1]} \cup REQUIRED_COLUMNS)

SamplesOver(columns) ==
    {Sample(id, PathOf(r.forward),
            IF r.reverse = Nothing THEN Nothing ELSE Some(PathOf(r.reverse[1])), a) :
        id \in { <<"a">>, <<"b">>, <<SP, "a">>, <<SP>> }, r \in ReadTexts, a \in [AttrCols(columns) -> { <<>>, <<"v", SP>>, <<TAB, QUOTE>> }]}

UniqueIds(samples) ==
    \A i, k \in 1..Len(samples) : samples[i].id = samples[k].id => i = k

\* The lists of n samples with distinct ids, as add_sample appends them.
RECURSIVE SampleLists(_, _)
SampleLists(samples, n) ==
    IF n = 0 THEN {<<>>}
    ELSE {ss \in {Append(s, x) : s \in SampleLists(samples, n - 1), x \in samples} :
             UniqueIds(ss)}

\* Sheets of up to n samples, with columns set.
Sheets(n) ==
    UNION {{[columns |-> c, samples |-> ss] : ss \in SampleLists(SamplesOver(c), k)} :
           c \in ColumnLists, k \in 0..n}

\* Lines of mapping files as users write them.
Lines ==
    { <<>>,
      WriteRow(<<ID, Forward, Reverse>>),
      WriteRow(<<ID, Reverse, Forward>>),
      WriteRow(<<ID, Forward>>),
      WriteRow(<< <<SP>>, Forward, Reverse>>),
      WriteRow(<< <<"a">>, <<"f">>, <<"r">> >>),
      WriteRow(<< <<"b">>, <<"f">>, <<>> >>),
      WriteRow(<< <<SP, "a">>, <<SLASH, "g">>, <<SP>> >>),
      WriteRow(<< <<>>, <<"f">>, <<"r">> >>),
      WriteRow(<< <<"a">>, <<"f">> >>) }

NoReturn == Returned("None", Nothing, 0)

\* The arguments of a call: a sample id, an attribute name, a sort criterion,
\* the absolute_paths flag.
Args(id, attr, by, absolute) == [id |-> id, attr |-> attr, by |-> by, absolute |-> absolute]

NoArgs == Args(<<>>, <<>>, "None", FALSE)

\* Neither a sample nor an attribute value was returned.
NoValue == [sample |-> Nothing, attr |-> Nothing]

\* sheet.save_to_file(file, absolute_paths)
Save(absolute_paths) ==
    /\ file' = SaveToFile(sheet, absolute_paths)
    /\ saved' = Some(sheet)
    /\ ret' = NoReturn
    /\ op' = "save"
    /\ arg' = Args(<<>>, <<>>, "None", absolute_paths)
    /\ got' = NoValue
    /\ UNCHANGED <<sheet, origin, jobVars, cmdVars>>

\* sheet = SampleSheet.load_from_file(file)
Load ==
    /\ ret' = LoadFromFile(file)
    /\ sheet' = IF ret'.kind = "ok" THEN ret'.sheet[1] ELSE sheet
    /\ op' = "load"
    /\ arg' = NoArgs
    /\ got' = NoValue
    /\ origin' = IF ret'.kind = "ok" THEN "load" ELSE origin
    /\ UNCHANGED <<file, saved, jobVars, cmdVars>>

SheetInit ==
    /\ \/ sheet \in Sheets(MaxSamples) /\ file = <<>> /\ origin = "changed"
       \/ sheet = EmptySheet /\ file \in UNION {[1..k -> Lines] : k \in 0..MaxLines} /\ origin = "new"
    /\ saved = Nothing
    /\ ret = NoReturn
    /\ op = "None"
    /\ arg = NoArgs
    /\ got = NoValue
    /\ job = [j \in Jobs |-> NoJob]
    /\ fault = [p \in Paths |-> "none"]
    /\ fs0 = {}
    /\ fs = fs0
    /\ logs = [p \in Paths |-> <<>>]
    /\ pc = [j \in Jobs |-> "idle"]
    /\ check = [j \in Jobs |-> TRUE]
    /\ runs = [j \in Jobs |-> 0]
    /\ spawns = [j \in Jobs |-> 0]
    /\ handles = [j \in Jobs |-> {}]
    /\ outcome = [j \in Jobs |-> NoOutcome]
    /\ CmdIdle


-----------------------------------------------------------------------------
(* SampleSheet: add_sample, remove_sample, lookups and sort                 *)

\* The characters of the model in code point order, as str comparison sees them.
Alphabet ==
    <<TAB, SP, QUOTE, "-", ".", SLASH,
      "0", "1", "2", "3", "4", "5", "6", "7", "8", "9",
      "A", "B", "C", "D", "E", "F", "G", "H", "I", "J", "K", "L", "M",
      "N", "O", "P", "Q", "R", "S", "T", "U", "V", "W", "X", "Y", "Z",
      "_",
      "a", "b", "c", "d", "e", "f", "g", "h", "i", "j", "k", "l", "m",
      "n", "o", "p", "q", "r", "s", "t", "u", "v", "w", "x", "y", "z">>

Code(c) == CHOOSE i \in 1..Len(Alphabet) : Alphabet[i] = c

\* s < t for Python strings
RECURSIVE StrLess(_, _)
StrLess(s, t) ==
    IF t = <<>> THEN FALSE
    ELSE IF s = <<>> THEN TRUE
    ELSE IF Head(s) = Head(t) THEN StrLess(Tail(s), Tail(t))
    ELSE Code(Head(s)) < Code(Head(t))

\* SortBy(by.lower()) for the criteria given as text
Lower(by) == IF by = "Sample_ID" THEN "sample_id" ELSE by

SortByValues == {"sample_id", "forward_read"}

ForwardKey(sample, by) == sample.forward

\* The sort key of a sample (formats.py:226, 228).
Key(sample, by) == IF by = "sample_id" THEN sample.id ELSE sample.forward

\* sorted(samples, key): stable, so x goes after the samples whose key is not
\* greater than its own.
RECURSIVE Insert(_, _, _)
Insert(x, samples, by) ==
    IF samples = <<>> THEN <<x>>
    ELSE IF StrLess(Key(x, by), Key(Head(samples), by)) THEN <<x>> \o samples
    ELSE <<Head(samples)>> \o Insert(x, Tail(samples), by)

Reversed(samples, by) == [i \in 1..Len(samples) |-> samples[Len(samples) + 1 - i]]

RECURSIVE Sorted(_, _)
Sorted(samples, by) ==
    IF samples = <<>> THEN <<>>
    ELSE Insert(samples[Len(samples)],
                Sorted(SubSeq(samples, 1, Len(samples) - 1), by), by)

\* formats.py:235-236: the samples added to sh one by one.
RECURSIVE AddAll(_, _)
AddAll(sh, samples) ==
    IF samples = <<>> THEN sh
    ELSE LET x == Head(samples)
             added == AddSample(sh, x.id, x.forward, x.reverse, x.attributes)
         IN AddAll(IF added.kind = "ok" THEN added.sheet[1] ELSE sh, Tail(samples))

\* sort (formats.py:214-238): a new sheet, or ValueError.
Sort(sh, by) ==
    IF Lower(by) \notin SortByValues THEN Returned("ValueError", Nothing, 0)
    ELSE Returned("ok",
                  Some(AddAll([columns |-> sh.columns, samples |-> <<>>],
                              Sorted(sh.samples, Lower(by)))),
                  0)

LastFirstWithout(samples, id) ==
    LET Keep(x) == x.id # id
        rest == SelectSeq(samples, Keep)
    IN IF rest = <<>> THEN rest
       ELSE <<rest[Len(rest)]>> \o SubSeq(rest, 1, Len(rest) - 1)

\* del self._samples[sample_id]: the other samples keep their order.
Without(samples, id) ==
    LET Keep(x) == x.id # id
    IN SelectSeq(samples, Keep)

\* remove_sample (formats.py:202-206)
RemoveSample(sh, id) ==
    IF id \notin Ids(sh) THEN Returned("NotFound", Nothing, 0)
    ELSE Returned("ok", Some([sh EXCEPT !.samples = Without(@, id)]), 0)

\* self._samples[sample_id]
SampleOf(sh, id) == sh.samples[CHOOSE i \in 1..Len(sh.samples) : sh.samples[i].id = id]

\* Sample.get_attr (formats.py:30-32): the value, or None.
GetAttr(sample, attr) ==
    IF attr \in DOMAIN sample.attributes THEN Some(sample.attributes[attr]) ELSE Nothing

RegIds == { <<"a">>, <<"b">>, <<SP, "a">> }

\* Mapping files at hand when a registry is built step by step.
RegFiles ==
    { <<>>,
      << WriteRow(<<ID, Forward, Reverse, Group>>),
         WriteRow(<< <<"b">>, <<SLASH, "g">>, <<>>, <<"v", SP>> >>),
         WriteRow(<< <<"a">>, <<"f">>, <<"r", SLASH>>, <<>> >>) >>,
      << WriteRow(<<ID, Forward, Reverse>>),
         WriteRow(<< <<"b">>, <<"f">>, <<"r", SLASH>> >>),
         WriteRow(<< <<"a">>, <<"f">>, <<>> >>) >> }

\* What the caller holds after a call that returned r or raised.
Kept(sh, r) == IF r.kind = "ok" THEN r.sheet[1] ELSE sh

\* sheet.add_sample(id, forward, reverse, attributes)
Add(id, reads, attributes) ==
    LET r == AddSample(sheet, id, PathOf(reads.forward),
                       IF reads.reverse = Nothing THEN Nothing
                       ELSE Some(PathOf(reads.reverse[1])),
                       attributes)
    IN /\ sheet' = Kept(sheet, r)
       /\ ret' = Returned(r.kind, Nothing, 0)
       /\ op' = "add"
       /\ arg' = Args(id, <<>>, "None", FALSE)
       /\ got' = NoValue
       /\ origin' = IF r.kind = "ok" THEN "changed" ELSE origin
       /\ UNCHANGED <<file, saved, jobVars, cmdVars>>

\* sheet.remove_sample(id)
Remove(id) ==
    LET r == RemoveSample(sheet, id)
    IN /\ sheet' = Kept(sheet, r)
       /\ ret' = Returned(r.kind, Nothing, 0)
       /\ op' = "remove"
       /\ arg' = Args(id, <<>>, "None", FALSE)
       /\ got' = NoValue
       /\ origin' = IF r.kind = "ok" THEN "changed" ELSE origin
       /\ UNCHANGED <<file, saved, jobVars, cmdVars>>

\* sheet.get_sample(id) (formats.py:208-212)
Get(id) ==
    /\ IF id \in Ids(sheet)
       THEN /\ ret' = Returned("ok", Nothing, 0)
            /\ got' = [sample |-> Some(SampleOf(sheet, id)), attr |-> Nothing]
       ELSE /\ ret' = Returned("NotFound", Nothing, 0)
            /\ got' = NoValue
    /\ op' = "get_sample"
    /\ arg' = Args(id, <<>>, "None", FALSE)
    /\ UNCHANGED <<sheet, file, saved, origin, jobVars, cmdVars>>

AttrOfAnySample(id, attr) == TRUE

\* formats.py:81: the id is looked up before the attribute.
KnownSample(id, attr) == id \in Ids(sheet)

\* sheet.get_sample_attr(id, attr) (formats.py:67-84)
GetSampleAttr(id, attr) ==
    /\ IF KnownSample(id, attr)
       THEN /\ ret' = Returned("ok", Nothing, 0)
            /\ got' = [sample |-> Nothing,
                       attr |-> IF id \in Ids(sheet) THEN GetAttr(SampleOf(sheet, id), attr)
                                ELSE Nothing]
       ELSE /\ ret' = Returned("NotFound", Nothing, 0)
            /\ got' = NoValue
    /\ op' = "get_sample_attr"
    /\ arg' = Args(id, attr, "None", FALSE)
    /\ UNCHANGED <<sheet, file, saved, origin, jobVars, cmdVars>>

SortedSelf(sh, r) == Kept(sh, r)

\* sort builds new_sheet (formats.py:233) and leaves self as it is.
SelfAfterSort(sh, r) == sh

\* sheet.sort(by): the new sheet is returned, not yet bound to a name.
SortSheet(by) ==
    /\ ret' = Sort(sheet, by)
    /\ sheet' = SelfAfterSort(sheet, ret')
    /\ op' = "sort"
    /\ arg' = Args(<<>>, <<>>, by, FALSE)
    /\ got' = NoValue
    /\ UNCHANGED <<file, saved, origin, jobVars, cmdVars>>

\* sheet = sheet.sort(by), as in make_mapping.py:218: the name is bound to the
\* sheet that sort returned.
Rebind ==
    /\ op = "sort" /\ ret.kind = "ok"
    /\ sheet' = ret.sheet[1]
    /\ origin' = Lower(arg.by)
    /\ op' = "rebind"
    /\ UNCHANGED <<file, saved, ret, arg, got, jobVars, cmdVars>>

\* sheet = SampleSheet(), with a mapping file at hand.
RegInit ==
    /\ sheet = EmptySheet
    /\ origin = "new"
    /\ file \in RegFiles
    /\ saved = Nothing
    /\ ret = NoReturn
    /\ op = "None"
    /\ arg = NoArgs
    /\ got = NoValue
    /\ job = [j \in Jobs |-> NoJob]
    /\ fault = [p \in Paths |-> "none"]
    /\ fs0 = {}
    /\ fs = fs0
    /\ logs = [p \in Paths |-> <<>>]
    /\ pc = [j \in Jobs |-> "idle"]
    /\ check = [j \in Jobs |-> TRUE]
    /\ runs = [j \in Jobs |-> 0]
    /\ spawns = [j \in Jobs |-> 0]
    /\ handles = [j \in Jobs |-> {}]
    /\ outcome = [j \in Jobs |-> NoOutcome]
    /\ CmdIdle

RegNext ==
    \/ Load
    \/ \E id \in RegIds, reads \in ReadTexts, attributes \in { [c \in {} |-> <<>>], [c \in {Group} |-> <<"v", SP>>] } :
          Add(id, reads, attributes)
    \/ \E id \in RegIds : Remove(id)
    \/ \E id \in RegIds : Get(id)
    \/ \E id \in RegIds, attr \in { Group, ID } : GetSampleAttr(id, attr)
    \/ \E by \in { "sample_id", "forward_read", "Sample_ID", "id" } : SortSheet(by)
    \/ Rebind

SpecReg == RegInit /\ [][RegNext]_vars

-----------------------------------------------------------------------------
(* make-mapping (commands/make_mapping.py:158-228)                          *)

\* read_pairs as collect_read_files returns it: per sample id the forward and
\* the reverse file, either of which may be missing.
PairIds == { <<"b">>, <<"a">> }

PairReads ==
    { [forward |-> Some(<<"f">>), reverse |-> Some(<<"r">>)],
      [forward |-> Some(<<"f">>), reverse |-> Nothing],
      [forward |-> Nothing, reverse |-> Some(<<"r">>)] }

ReadPairs ==
    {<<>>} \cup
    {<<[id |-> i, files |-> f]>> : i \in PairIds, f \in PairReads} \cup
    {<<[id |-> i, files |-> f], [id |-> k, files |-> g]>> :
        <<i, k>> \in {x \in PairIds \X PairIds : x[1] # x[2]},
        <<f, g>> \in PairReads \X PairReads}

\* make_mapping.py:182-203: the sheet built from the pairs and the number of
\* errors collected, sample ids taken as they are (--dont-rename).
RECURSIVE BuildSheet(_, _, _, _)
BuildSheet(sh, nerrors, pairs, absolute) ==
    IF pairs = <<>> THEN [sheet |-> sh, errors |-> nerrors]
    ELSE LET p == Head(pairs)
         IN IF p.files.forward = Nothing
            THEN BuildSheet(sh, nerrors + 1, Tail(pairs), absolute)
            ELSE LET forward == p.files.forward[1]
                     reverse == p.files.reverse
                     added == AddSample(sh, p.id,
                                  IF absolute THEN Absolute(forward) ELSE forward,
                                  IF absolute /\ reverse # Nothing
                                  THEN Some(Absolute(reverse[1])) ELSE reverse,
                                  [c \in {} |-> <<>>])
                 IN IF added.kind = "ok"
                    THEN BuildSheet(added.sheet[1], nerrors, Tail(pairs), absolute)
                    ELSE BuildSheet(sh, nerrors + 1, Tail(pairs), absolute)

\* qimba make-mapping --dont-rename -o file [--absolute], run as a command of
\* its own: it builds a sheet from the read pairs, sorts it and saves it, or
\* exits with status 1 when no sample was found or an error was collected.
MakeMapping(pairs, absolute) ==
    /\ op = "None" /\ sheet = EmptySheet
    /\ LET built == BuildSheet(EmptySheet, 0, pairs, absolute)
           sorted == Sort(built.sheet, "sample_id").sheet[1]
       IN IF Len(built.sheet.samples) = 0 \/ built.errors > 0
          THEN /\ ret' = Returned("Exit", Nothing, 1)
               /\ sheet' = built.sheet
               /\ origin' = IF built.sheet.samples = <<>> THEN "new" ELSE "changed"
               /\ UNCHANGED <<file, saved>>
          ELSE /\ ret' = Returned("ok", Nothing, 0)
               /\ sheet' = sorted
               /\ origin' = "sample_id"
               /\ file' = SaveToFile(sorted, absolute)
               /\ saved' = Some(sorted)
    /\ op' = "make_mapping"
    /\ arg' = Args(<<>>, <<>>, "None", absolute)
    /\ got' = NoValue
    /\ UNCHANGED <<jobVars, cmdVars>>

SheetNext ==
    \/ \E absolute_paths \in BOOLEAN : Save(absolute_paths)
    \/ Load
    \/ \E pairs \in ReadPairs, absolute \in BOOLEAN : MakeMapping(pairs, absolute)

SpecSheet == SheetInit /\ [][SheetNext]_vars

-----------------------------------------------------------------------------
(* rename_sample_id (commands/make_mapping.py:63-97)                        *)

Digits == <<"0", "1", "2", "3", "4", "5", "6", "7", "8", "9">>

\* str.isdigit, for the characters of ASCII.
IsDigit(c) == c \in Range(Digits)

LowerCase ==
    {"a", "b", "c", "d", "e", "f", "g", "h", "i", "j", "k", "l", "m",
     "n", "o", "p", "q", "r", "s", "t", "u", "v", "w", "x", "y", "z"}

UpperCase ==
    {"A", "B", "C", "D", "E", "F", "G", "H", "I", "J", "K", "L", "M",
     "N", "O", "P", "Q", "R", "S", "T", "U", "V", "W", "X", "Y", "Z"}

\* The characters that the pattern [^a-zA-Z0-9] does not match.
IsAlnum(c) == c \in LowerCase \cup UpperCase \cup Range(Digits)

\* prefix: str = "Sample"; the command never passes another one.
Prefix == <<"S", "a", "m", "p", "l", "e">>

\* str(n) of a count.
RECURSIVE Decimal(_)
Decimal(n) ==
    IF n < 10 THEN <<Digits[n + 1]>>
    ELSE Decimal(n \div 10) \o <<Digits[(n % 10) + 1]>>

\* re.sub(r'[^a-zA-Z0-9]', safe_char, s)
RECURSIVE ReSub(_, _)
ReSub(s, safe_char) ==
    IF s = <<>> THEN <<>>
    ELSE (IF IsAlnum(Head(s)) THEN <<Head(s)>> ELSE safe_char) \o ReSub(Tail(s), safe_char)

\* Rules 1 and 2: the base name of a raw id, which is not empty.
BaseName(sample_id, safe_char, prefix) ==
    ReSub(IF IsDigit(sample_id[1]) THEN prefix \o safe_char \o sample_id ELSE sample_id,
          safe_char)

RenameCountingFromOne(sample_id, safe_char, prefix, counts) ==
    LET base == BaseName(sample_id, safe_char, prefix)
    IN IF base \in DOMAIN counts
       THEN [name |-> base \o Decimal(counts[base] + 1),
             counts |-> [counts EXCEPT ![base] = @ + 1]]
       ELSE [name |-> base,
             counts |-> [b \in DOMAIN counts \cup {base} |->
                            IF b = base THEN 1 ELSE counts[b]]]

\* rename_sample_id: the returned name and the accumulator after the call
\* (rule 3: name_counts[base] is 0 after the first occurrence of a base name).
RenameSampleId(sample_id, safe_char, prefix, counts) ==
    LET base == BaseName(sample_id, safe_char, prefix)
    IN IF base \in DOMAIN counts
       THEN [name |-> base \o Decimal(counts[base] + 1),
             counts |-> [counts EXCEPT ![base] = @ + 1]]
       ELSE [name |-> base,
             counts |-> [b \in DOMAIN counts \cup {base} |->
                            IF b = base THEN 0 ELSE counts[b]]]

\* The number of rename_sample_id calls of one run.
MaxRenames == 3

Example == <<"1", "2", "3", "_", "s", "a", "m", "p", "l", "e">>

RawIds ==
    { <<"a", "_">>, <<"a", "-">>, <<"a", ".">>, <<"a", "_", "1">>, <<"1">>, Example }

Options(ext, strip, tag_for, tag_rev, safe_char, absolute, dont_rename) ==
    [ext |-> ext, strip |-> strip, tag_for |-> tag_for, tag_rev |-> tag_rev,
     safe_char |-> safe_char, absolute |-> absolute, dont_rename |-> dont_rename]

\* No Job and no SampleSheet operation is at hand.
NoJobs ==
    /\ job = [j \in Jobs |-> NoJob]
    /\ fault = [p \in Paths |-> "none"]
    /\ fs0 = {}
    /\ fs = fs0
    /\ logs = [p \in Paths |-> <<>>]
    /\ pc = [j \in Jobs |-> "idle"]
    /\ check = [j \in Jobs |-> TRUE]
    /\ runs = [j \in Jobs |-> 0]
    /\ spawns = [j \in Jobs |-> 0]
    /\ handles = [j \in Jobs |-> {}]
    /\ outcome = [j \in Jobs |-> NoOutcome]

\* final_id = rename_sample_id(sample_id, safe_char, name_counts=name_counts)
\* (make_mapping.py:189), with the accumulator of the run.
Rename(sample_id) ==
    /\ Len(final_ids) < MaxRenames
    /\ LET r == RenameSampleId(sample_id, opts.safe_char, Prefix, name_counts)
       IN /\ final_ids' = Append(final_ids, [raw |-> sample_id, final |-> r.name])
          /\ name_counts' = r.counts
    /\ UNCHANGED <<dir, opts, scanned, read_pairs, errors, stderr, status, merge>>
    /\ UNCHANGED <<jobVars, sheetVars>>

\* A run starts with name_counts = {} (make_mapping.py:172).
RenameInit ==
    /\ NoJobs
    /\ SheetIdle
    /\ dir = <<>>
    /\ \E safe_char \in { <<"_">>, <<"-">> } :
          opts = Options(<<>>, <<>>, <<>>, <<>>, safe_char, FALSE, FALSE)
    /\ scanned = 0
    /\ read_pairs = <<>>
    /\ name_counts = <<>>
    /\ final_ids = <<>>
    /\ errors = <<>>
    /\ stderr = <<>>
    /\ status = "running"
    /\ merge = [output |-> FALSE, outputs |-> <<>>]

RenameNext == \E sample_id \in RawIds : Rename(sample_id)

SpecRename == RenameInit /\ [][RenameNext]_vars

-----------------------------------------------------------------------------
(* make-mapping: process_filename, collect_read_files and cli               *)
(* (commands/make_mapping.py:34-60, 100-137, 158-228)                       *)

\* str.endswith
EndsWith(s, t) == Len(t) <= Len(s) /\ SubSeq(s, Len(s) - Len(t) + 1, Len(s)) = t

\* Path.name: what follows the last slash.
NameOf(path) ==
    LET slashes == {i \in 1..Len(path) : path[i] = SLASH}
    IN IF slashes = {} THEN path
       ELSE SubSeq(path, (CHOOSE i \in slashes : \A k \in slashes : k <= i) + 1, Len(path))

\* s[:-n]; s[:-0] is the empty string.
DropLast(s, n) == IF n = 0 THEN <<>> ELSE SubSeq(s, 1, Len(s) - n)

\* The position of the first occurrence of the non-empty t in s, or 0.
Find(s, t) ==
    LET at == {i \in 1..(Len(s) - Len(t) + 1) : SubSeq(s, i, i + Len(t) - 1) = t}
    IN IF at = {} THEN 0 ELSE CHOOSE i \in at : \A k \in at : i <= k

\* t in s
Contains(s, t) == Find(s, t) # 0

\* s.split(t)[0], for t in s
Before(s, t) == SubSeq(s, 1, Find(s, t) - 1)

\* s.replace(old, ''), for a non-empty old: every occurrence goes, from left
\* to right.
RECURSIVE Replace(_, _)
Replace(s, old) ==
    IF Len(s) < Len(old) THEN s
    ELSE IF Len(old) <= Len(s) /\ SubSeq(s, 1, Len(old)) = old THEN Replace(SubSeq(s, Len(old) + 1, Len(s)), old)
    ELSE <<Head(s)>> \o Replace(Tail(s), old)

Classified(sample_name, is_forward) == [sample_name |-> sample_name, is_forward |-> is_forward]

ReverseTagFirst(name, tag_for, tag_rev) ==
    IF Contains(name, tag_rev) THEN Classified(Some(Before(name, tag_rev)), FALSE)
    ELSE IF Contains(name, tag_for) THEN Classified(Some(Before(name, tag_for)), TRUE)
    ELSE Classified(Nothing, FALSE)

\* make_mapping.py:54-60: the forward tag is looked for first.  The tags are
\* not empty.
TagOf(name, tag_for, tag_rev) ==
    IF Contains(name, tag_for) THEN Classified(Some(Before(name, tag_for)), TRUE)
    ELSE IF Contains(name, tag_rev) THEN Classified(Some(Before(name, tag_rev)), FALSE)
    ELSE Classified(Nothing, FALSE)

\* process_filename: (sample_name, is_forward), sample_name None when the
\* file name does not match.
ProcessFilename(filename, extension, strip_str, tag_for, tag_rev) ==
    IF ~EndsWith(filename, extension) THEN Classified(Nothing, FALSE)
    ELSE LET stem == DropLast(NameOf(filename), Len(extension))
             name == IF strip_str # <<>> THEN Replace(stem, strip_str) ELSE stem
         IN TagOf(name, tag_for, tag_rev)

\* A line on standard error, or an entry of errors.
Msg(kind, id, type, existing, new) ==
    [kind |-> kind, id |-> id, type |-> type, existing |-> existing, new |-> new]

PairOf(id, forward, reverse) == [id |-> id, forward |-> forward, reverse |-> reverse]

\* The position of sample_id in read_pairs, or 0.
PairIdx(pairs, id) ==
    IF \E i \in 1..Len(pairs) : pairs[i].id = id
    THEN CHOOSE i \in 1..Len(pairs) : pairs[i].id = id
    ELSE 0

Slot(pair, type) == IF type = "forward" THEN pair.forward ELSE pair.reverse

Overwrites(pair, type) == FALSE

\* read_pairs[sample_id][file_type] is not None (make_mapping.py:128)
SlotTaken(pair, type) == Slot(pair, type) # Nothing

\* One turn of the loop of collect_read_files (make_mapping.py:112-135) on
\* filepath: read_pairs after it, and the ValueError it raises when the slot
\* of the file is taken.
ScanStep(pairs, filepath, o) ==
    LET r == ProcessFilename(filepath, o.ext, o.strip, o.tag_for, o.tag_rev)
    IN IF r.sample_name = Nothing \/ r.sample_name = Some(<<>>)
       THEN [pairs |-> pairs, raised |-> Nothing]
       ELSE LET sample_id == r.sample_name[1]
                known == IF PairIdx(pairs, sample_id) = 0
                         THEN Append(pairs, PairOf(sample_id, Nothing, Nothing))
                         ELSE pairs
                i == PairIdx(known, sample_id)
                file_type == IF r.is_forward THEN "forward" ELSE "reverse"
            IN IF SlotTaken(known[i], file_type)
               THEN [pairs |-> pairs,
                     raised |-> Some(Msg("DuplicateFile", sample_id, file_type,
                                         Slot(known[i], file_type)[1], filepath))]
               ELSE [pairs |-> [known EXCEPT ![i] =
                                   IF r.is_forward
                                   THEN PairOf(sample_id, Some(filepath), @.reverse)
                                   ELSE PairOf(sample_id, @.forward, Some(filepath))],
                     raised |-> Nothing]

\* collect_read_files looks at the next file that glob yields.  A ValueError
\* ends the scan: cli reports it and exits with status 1
\* (make_mapping.py:226-228).
ScanFile ==
    /\ status = "running"
    /\ scanned < Len(dir)
    /\ scanned' = scanned + 1
    /\ LET step == ScanStep(read_pairs, dir[scanned + 1], opts)
       IN IF step.raised # Nothing
          THEN /\ stderr' = step.raised
               /\ status' = "exit1"
               /\ UNCHANGED read_pairs
          ELSE /\ read_pairs' = step.pairs
               /\ UNCHANGED <<stderr, status>>
    /\ UNCHANGED <<dir, opts, name_counts, final_ids, errors, merge>>
    /\ UNCHANGED <<jobVars, sheetVars>>

Built(sh, errs, counts, finals) ==
    [sheet |-> sh, errors |-> errs, counts |-> counts, finals |-> finals]

\* The loop over read_pairs.items() (make_mapping.py:182-200).
RECURSIVE AddPairs(_, _, _)
AddPairs(b, pairs, o) ==
    IF pairs = <<>> THEN b
    ELSE LET p == Head(pairs)
         IN IF p.forward = Nothing
            THEN AddPairs(Built(b.sheet,
                                Append(b.errors,
                                       Msg("MissingForward", p.id, "forward", <<>>, <<>>)),
                                b.counts, b.finals),
                          Tail(pairs), o)
            ELSE LET r == IF o.dont_rename THEN [name |-> p.id, counts |-> b.counts]
                          ELSE RenameSampleId(p.id, o.safe_char, Prefix, b.counts)
                     finals == IF o.dont_rename THEN b.finals
                               ELSE Append(b.finals, [raw |-> p.id, final |-> r.name])
                     forward == p.forward[1]
                     added == AddSample(b.sheet, r.name,
                                  IF o.absolute THEN Absolute(forward) ELSE forward,
                                  IF o.absolute /\ p.reverse # Nothing
                                  THEN Some(Absolute(p.reverse[1])) ELSE p.reverse,
                                  [c \in {} |-> <<>>])
                 IN IF added.kind = "ok"
                    THEN AddPairs(Built(added.sheet[1], b.errors, r.counts, finals),
                                  Tail(pairs), o)
                    ELSE AddPairs(Built(b.sheet,
                                        Append(b.errors,
                                               Msg("DuplicateKey", r.name, "forward",
                                                   <<>>, <<>>)),
                                        r.counts, finals),
                                  Tail(pairs), o)

\* cli after collect_read_files has returned (make_mapping.py:179-222), with
\* --output: the sheet is built, and then the command exits with status 1 when
\* the sheet is empty or an error was collected, or sorts the sheet and saves it.
BuildAndWrite ==
    /\ status = "running"
    /\ scanned = Len(dir)
    /\ LET b == AddPairs(Built(EmptySheet, <<>>, name_counts, final_ids), read_pairs, opts)
           sorted == Sort(b.sheet, "sample_id").sheet[1]
       IN /\ errors' = b.errors
          /\ name_counts' = b.counts
          /\ final_ids' = b.finals
          /\ IF Len(b.sheet.samples) = 0
             THEN /\ stderr' = <<Msg("NoValidSamples", <<>>, "None", <<>>, <<>>)>>
                  /\ status' = "exit1"
                  /\ sheet' = b.sheet
                  /\ UNCHANGED <<file, saved, origin>>
             ELSE IF b.errors # <<>>
             THEN /\ stderr' = <<Msg("ErrorsFound", <<>>, "None", <<>>, <<>>)>> \o b.errors
                  /\ status' = "exit1"
                  /\ sheet' = b.sheet
                  /\ origin' = "changed"
                  /\ UNCHANGED <<file, saved>>
             ELSE /\ status' = "exit0"
                  /\ sheet' = sorted
                  /\ origin' = "sample_id"
                  /\ file' = SaveToFile(sorted, opts.absolute)
                  /\ saved' = Some(sorted)
                  /\ UNCHANGED stderr
    /\ op' = "make_mapping"
    /\ UNCHANGED <<ret, arg, got>>
    /\ UNCHANGED <<dir, opts, scanned, read_pairs, merge>>
    /\ UNCHANGED jobVars

\* The number of files in INPUT_DIR.
MaxFiles == 3

\* Files of INPUT_DIR, as paths below it.
FileNames ==
    { <<"A", "_", "1", ".", "q">>,
      <<"A", "_", "2", ".", "q">>,
      <<"B", "_", "2", ".", "q">>,
      <<"d", SLASH, "A", "_", "1", ".", "q">>,
      <<"a", "-", "_", "1", ".", "q">>,
      <<"a", ".", "_", "1", ".", "q">>,
      <<"x", "A", "x", "_", "1", ".", "q">>,
      <<"A", "_", "2", "_", "1", ".", "q">>,
      <<"_", "1", ".", "q">>,
      <<"A", "_", "1", ".", "z">> }

\* The files of a directory in an order in which glob may yield them: the
\* order is the file system's.
RECURSIVE Listings(_, _)
Listings(names, n) ==
    IF n = 0 THEN {<<>>}
    ELSE LET shorter == Listings(names, n - 1)
         IN shorter \cup {Append(l, f) : l \in {x \in shorter : Len(x) = n - 1}, f \in names}

DirListings(n) ==
    {l \in Listings(FileNames, n) : \A i, k \in 1..Len(l) : l[i] = l[k] => i = k}

ScanOptions ==
    {Options(<<".", "q">>, strip, <<"_", "1">>, <<"_", "2">>, <<"_">>, absolute, dont_rename) :
        strip \in {<<>>, <<"x">>}, absolute \in BOOLEAN, dont_rename \in BOOLEAN}

\* qimba make-mapping INPUT_DIR -o FILE, from its start.
ScanInit ==
    /\ NoJobs
    /\ SheetIdle
    /\ dir \in DirListings(MaxFiles)
    /\ opts \in ScanOptions
    /\ scanned = 0
    /\ read_pairs = <<>>
    /\ name_counts = <<>>
    /\ final_ids = <<>>
    /\ errors = <<>>
    /\ stderr = <<>>
    /\ status = "running"
    /\ merge = [output |-> FALSE, outputs |-> <<>>]

ScanNext == ScanFile \/ BuildAndWrite

SpecScan == ScanInit /\ [][ScanNext]_vars

-----------------------------------------------------------------------------
(* merge (commands/merge.py:63-156)                                         *)

\* The Job of sample j (merge.py:109-128): forward and reverse read as inputs,
\* the temporary output, both logs; with what usearch does when it is run.
MergeJobs(j) ==
    {[required_input |-> ins, required_output |-> <<Tmp[j].output>>,
      log_stderr |-> Tmp[j].log_stderr, log_stdout |-> Tmp[j].log_stdout,
      spawnable |-> spawnable, exit |-> exit, creates |-> creates] :
        ins \in [1..2 -> InPaths], spawnable \in BOOLEAN, exit \in ExitCodes,
        creates \in SUBSET {Tmp[j].output}}

PreviousFinished(j) == \A k \in Jobs : k < j => pc[k] = "done"

\* The loop reaches sample j when job.run() has returned for every sample
\* before it (merge.py:107, 135-136).
PreviousReturned(j) == Len(merge.outputs) = j - 1

\* if os.path.exists(output): sys.exit(1) (merge.py:100-102)
MergeStart ==
    /\ status = "idle"
    /\ IF merge.output
       THEN /\ status' = "exit1"
            /\ stderr' = <<Msg("OutputExists", <<>>, "None", <<>>, <<>>)>>
       ELSE /\ status' = "running"
            /\ UNCHANGED stderr
    /\ UNCHANGED <<dir, opts, scanned, read_pairs, name_counts, final_ids, errors, merge>>
    /\ UNCHANGED <<jobVars, sheetVars>>

\* job.run() for the next sample (merge.py:135)
MergeRun(j) ==
    /\ status = "running"
    /\ pc[j] = "idle"
    /\ PreviousReturned(j)
    /\ Run(j, TRUE)

\* outputs.extend(job.required_output) (merge.py:136)
MergeExtend(j) ==
    /\ status = "running"
    /\ pc[j] = "done" /\ outcome[j].kind = "Succeeded"
    /\ Len(merge.outputs) = j - 1
    /\ merge' = [merge EXCEPT !.outputs = @ \o job[j].required_output]
    /\ UNCHANGED <<dir, opts, scanned, read_pairs, name_counts, final_ids, errors,
                   stderr, status>>
    /\ UNCHANGED <<jobVars, sheetVars>>

\* job.run() has raised: the except clauses print the error and call
\* sys.exit(1); an error that none of them names ends the command with a
\* traceback and status 1 (merge.py:137-149).
MergeFail(j) ==
    /\ status = "running"
    /\ pc[j] = "done" /\ outcome[j].kind # "Succeeded"
    /\ status' = "exit1"
    /\ stderr' = <<Msg(outcome[j].kind, <<>>, "None", <<>>, <<>>)>>
    /\ UNCHANGED <<dir, opts, scanned, read_pairs, name_counts, final_ids, errors, merge>>
    /\ UNCHANGED <<jobVars, sheetVars>>

\* After the loop the temporary outputs are concatenated into the output
\* file, which open(..., "wb") creates (merge.py:151-156).
MergeConcat ==
    /\ status = "running"
    /\ Len(merge.outputs) = Cardinality(Jobs)
    /\ merge' = [merge EXCEPT !.output = TRUE]
    /\ status' = "exit0"
    /\ UNCHANGED <<dir, opts, scanned, read_pairs, name_counts, final_ids, errors, stderr>>
    /\ UNCHANGED <<jobVars, sheetVars>>

\* qimba merge on a sample sheet of two samples; the temporary directory is
\* new, so it holds no file yet.
MergeInit ==
    /\ \E c1 \in MergeJobs(1), c2 \in MergeJobs(2) :
          job = [j \in Jobs |-> IF j = 1 THEN c1 ELSE c2]
    /\ \A j \in Jobs : ~job[j].spawnable => (job[j].exit = 0 /\ job[j].creates = {})
    /\ \A j \in Jobs : job[j].spawnable = job[1].spawnable
    /\ fault = [p \in Paths |-> "none"]
    /\ fs0 \in SUBSET InPaths
    /\ SheetIdle
    /\ fs = fs0
    /\ logs = [p \in Paths |-> <<>>]
    /\ pc = [j \in Jobs |-> "idle"]
    /\ check = [j \in Jobs |-> TRUE]
    /\ runs = [j \in Jobs |-> 0]
    /\ spawns = [j \in Jobs |-> 0]
    /\ handles = [j \in Jobs |-> {}]
    /\ outcome = [j \in Jobs |-> NoOutcome]
    /\ dir = <<>>
    /\ opts = Options(<<>>, <<>>, <<>>, <<>>, <<>>, FALSE, FALSE)
    /\ scanned = 0
    /\ read_pairs = <<>>
    /\ name_counts = <<>>
    /\ final_ids = <<>>
    /\ errors = <<>>
    /\ stderr = <<>>
    /\ status = "idle"
    /\ \E exists \in BOOLEAN : merge = [output |-> exists, outputs |-> <<>>]

MergeNext ==
    \/ MergeStart
    \/ MergeConcat
    \/ \E j \in Jobs :
          \/ MergeRun(j)
          \/ OpenStderr(j)
          \/ OpenStdout(j)
          \/ WriteHeader(j)
          \/ Spawn(j)
          \/ ProcessExit(j)
          \/ Finish(j)
          \/ MergeExtend(j)
          \/ MergeFail(j)

SpecMerge == MergeInit /\ [][MergeNext]_vars

-----------------------------------------------------------------------------
(* Properties of Job.run()                                                  *)

Done(j) == pc[j] = "done"

\* The process of the current call was spawned and has ended.
ProcessEnded(j) == spawns[j] >= 1 /\ pc[j] \in {"exited", "done"}

\* p is the first path of l, in declaration order, that does not exist.
IsFirstMissing(p, l) ==
    \E i \in 1..Len(l) :
        /\ l[i] = p
        /\ p \notin fs
        /\ \A k \in 1..(i - 1) : l[k] \in fs

SomeMissing(l) == \E i \in 1..Len(l) : l[i] \notin fs

\* C1: a run() on a Job one of whose required inputs does not exist ends in
\* InputMissing naming the first missing path in declaration order, and spawns
\* no process in that call.
C1_InputMissingNoSpawn ==
    \A j \in Jobs :
        (pc[j] # "idle" /\ SomeMissing(job[j].required_input)) =>
            /\ Done(j)
            /\ outcome[j].kind = "FailedInput"
            /\ IsFirstMissing(outcome[j].path, job[j].required_input)
            /\ spawns[j] = 0

C1_Witness ==
    /\ Done(1)
    /\ outcome[1].kind = "FailedInput"
    /\ Len(job[1].required_input) = 2
    /\ job[1].required_input[1] \in fs
    /\ outcome[1].path = job[1].required_input[2]
    /\ job[1].spawnable
    /\ runs[1] = 2

HeaderAt(f, i, j, s) == logs[f][i] = Entry("hdr", j, s)

IsOutputOf(e, j) == e.kind = "out" /\ e.job = j /\ e.run = runs[j]

\* C2: once the process of a run() call is spawned, the header of that call is
\* in every configured log, ahead of whatever the process wrote there; so it is
\* there however the call ends.
C2_HeaderBeforeSpawn ==
    \A j \in Jobs :
        spawns[j] >= 1 =>
            \A s \in {"stderr", "stdout"} :
                LET f == LogOf(job[j], s)
                IN f # None =>
                     \E i \in 1..Len(logs[f]) :
                         /\ HeaderAt(f, i, j, s)
                         /\ \A k \in 1..Len(logs[f]) :
                                IsOutputOf(logs[f][k], j) => i < k

C2_Witness ==
    /\ Done(1)
    /\ runs[1] = 2
    /\ outcome[1].kind = "FailedOutput"
    /\ job[1].log_stderr = "c"
    /\ job[1].log_stdout = "d"
    /\ Len(logs["c"]) = 4
    /\ Len(logs["d"]) = 4

\* C3 as claimed: after a non-zero exit of the process run() fails with
\* ProcessFailed carrying the exit code, whatever the check argument.
C3_Original ==
    \A j \in Jobs :
        (Done(j) /\ ProcessEnded(j) /\ job[j].exit # 0) =>
            /\ outcome[j].kind = "FailedProcess"
            /\ outcome[j].code = job[j].exit

\* C3 amended: after a non-zero exit of the process, run(check=True) fails with
\* ProcessFailed carrying the exit code; run(check=False) goes on to the output
\* check and returns the result, which carries the exit code, or fails with
\* OutputMissing.
C3_ProcessFailedWhenChecked ==
    \A j \in Jobs :
        (Done(j) /\ ProcessEnded(j) /\ job[j].exit # 0) =>
            /\ outcome[j].code = job[j].exit
            /\ check[j] => outcome[j].kind = "FailedProcess"
            /\ ~check[j] =>
                 outcome[j].kind =
                     IF SomeMissing(job[j].required_output)
                     THEN "FailedOutput" ELSE "Succeeded"

C3_Witness ==
    /\ Done(1)
    /\ check[1]
    /\ job[1].exit = 2
    /\ job[1].creates = {"b", "c"}
    /\ outcome[1] = Ended("FailedProcess", None, 2)

OutputMissingRule(j) ==
    (ProcessEnded(j) /\ job[j].exit = 0 /\ SomeMissing(job[j].required_output)) =>
        /\ outcome[j].kind = "FailedOutput"
        /\ IsFirstMissing(outcome[j].path, job[j].required_output)

\* C4 as claimed: a zero exit with a required output missing ends in
\* OutputMissing naming the first missing path, and run() returns a result only
\* after a zero exit with every required output in place.
C4_Original ==
    \A j \in Jobs :
        Done(j) =>
            /\ OutputMissingRule(j)
            /\ outcome[j].kind = "Succeeded" =>
                 /\ job[j].exit = 0
                 /\ ~SomeMissing(job[j].required_output)

\* C4 amended: a zero exit with a required output missing ends in OutputMissing
\* naming the first missing path, and run() returns a result only if every
\* required output exists and the process exited zero or the call was
\* run(check=False).
C4_OutputMissing ==
    \A j \in Jobs :
        Done(j) =>
            /\ OutputMissingRule(j)
            /\ outcome[j].kind = "Succeeded" =>
                 /\ job[j].exit = 0 \/ ~check[j]
                 /\ ProcessEnded(j)
                 /\ ~SomeMissing(job[j].required_output)

C4_Witness ==
    /\ Done(1)
    /\ job[1].exit = 0
    /\ job[1].required_output = <<"c", "b">>
    /\ job[1].creates = {}
    /\ fs = {}
    /\ outcome[1] = Ended("FailedOutput", "c", 0)

\* C5: when a run() call has ended, on whatever path, none of the log file
\* handles it opened is still open.
C5_HandlesReleased == \A j \in Jobs : Done(j) => handles[j] = {}

FourOutcomes == {"Succeeded", "FailedInput", "FailedProcess", "FailedOutput"}

\* C6 as claimed: a run() call ends in one of the four outcomes and spawns at
\* most one process.
C6_Original ==
    \A j \in Jobs :
        /\ spawns[j] <= 1
        /\ Done(j) => outcome[j].kind \in FourOutcomes

\* C6 amended: a run() call ends in exactly one of Succeeded, FailedInput,
\* FailedProcess, FailedOutput or in the OS error of a log file that cannot be
\* opened or written or of a command that cannot be started; it spawns at most
\* one process, none before FailedInput and exactly one before FailedProcess,
\* FailedOutput and Succeeded, and the outcome is set only when the call ends.
C6_OneOutcomeOneSpawn ==
    \A j \in Jobs :
        /\ spawns[j] <= 1
        /\ Done(j) =>
             /\ outcome[j].kind \in FourOutcomes \cup {"OSError"}
             /\ outcome[j].kind = "FailedInput" => spawns[j] = 0
             /\ outcome[j].kind \in FourOutcomes \ {"FailedInput"} => spawns[j] = 1
        /\ ~Done(j) => outcome[j] = NoOutcome

C6_Witness ==
    /\ Done(1)
    /\ runs[1] = 2
    /\ outcome[1].kind = "FailedProcess"
    /\ spawns[1] = 1

HeadersBefore(f, k) ==
    {i \in 1..(k - 1) :
        /\ logs[f][i].kind = "hdr"
        /\ logs[f][i].job = logs[f][k].job
        /\ logs[f][i].run = logs[f][k].run}

OneHeaderPerInvocation ==
    \A f \in Paths :
        \A k \in 1..Len(logs[f]) :
            logs[f][k].kind = "out" => Cardinality(HeadersBefore(f, k)) = 1

\* C7: the log files are append-only, what a file held before a step is a
\* prefix of what it holds after it, and what an invocation wrote to a file is
\* preceded there by exactly one header block of that invocation.
C7_AppendOnlyOneHeader ==
    [][/\ \A f \in Paths : IsPrefix(logs[f], logs'[f])
       /\ OneHeaderPerInvocation']_vars

\* The paths Job j reads or writes, and the ones it writes.
Named(j) ==
    Range(job[j].required_input) \cup Range(job[j].required_output)
        \cup ConfiguredLogs(j)

Written(j) == Range(job[j].required_output) \cup ConfiguredLogs(j)

NoInterference == \A j, k \in Jobs : j # k => Written(k) \cap Named(j) = {}

SameAsAlone(j) ==
    /\ outcome[j] = SoloOutcome(j)
    /\ \A f \in ConfiguredLogs(j) : logs[f] = SoloLog(j, f)

SoloIsRunAlone == (Done(1) /\ runs[1] = 1) => SameAsAlone(1)

-----------------------------------------------------------------------------
(* Properties of save_to_file and load_from_file                            *)

\* The (id, forward, reverse, attributes) tuples of a sheet, paths made absolute.
Tuples(sh) ==
    {[id |-> sh.samples[i].id,
      forward |-> Absolute(sh.samples[i].forward),
      reverse |-> IF sh.samples[i].reverse = Nothing THEN Nothing
                  ELSE Some(Absolute(sh.samples[i].reverse[1])),
      attributes |-> sh.samples[i].attributes] : i \in 1..Len(sh.samples)}

\* A valid registry: the ID label first, Forward and Reverse among the columns,
\* unique non-empty ids, attributes keyed by the non-reserved columns.
ValidSheet(sh) ==
    /\ sh.columns # <<>>
    /\ sh.columns[1] \notin REQUIRED_COLUMNS
    /\ REQUIRED_COLUMNS \subseteq {sh.columns[i] : i \in 1..Len(sh.columns)}
    /\ UniqueIds(sh.samples)
    /\ \A i \in 1..Len(sh.samples) :
         /\ sh.samples[i].id # <<>>
         /\ DOMAIN sh.samples[i].attributes = AttrCols(sh.columns)

\* The file was written by save_to_file and has just been loaded.
SavedThenLoaded == op = "load" /\ saved # Nothing

\* C9 (as stated): for any valid registry S, save_to_file(S) followed by
\* load_from_file of the written file yields a registry with the same set of
\* (id, forward, reverse, attributes) tuples, paths compared modulo
\* absolute-path normalisation.
C9_RoundTrip ==
    (SavedThenLoaded /\ ValidSheet(saved[1])) =>
        /\ ret.kind = "ok"
        /\ Tuples(ret.sheet[1]) = Tuples(saved[1])

\* No id and no column label of the sheet has surrounding whitespace.
Trimmed(sh) ==
    /\ \A i \in 1..Len(sh.columns) : Strip(sh.columns[i]) = sh.columns[i]
    /\ \A i \in 1..Len(sh.samples) : Strip(sh.samples[i].id) = sh.samples[i].id

\* Lemma: saving then loading does reproduce the tuples of the valid
\* registries whose ids and column labels carry no surrounding whitespace.
RoundTripOfTrimmed ==
    (SavedThenLoaded /\ ValidSheet(saved[1]) /\ Trimmed(saved[1])) =>
        /\ ret.kind = "ok"
        /\ Tuples(ret.sheet[1]) = Tuples(saved[1])

RoundTripOfTrimmedWitness ==
    /\ SavedThenLoaded /\ ValidSheet(saved[1]) /\ Trimmed(saved[1])
    /\ Len(saved[1].samples) = 2
    /\ \E i \in 1..2 : \E c \in AttrCols(saved[1].columns) :
         saved[1].samples[i].attributes[c] = <<TAB, QUOTE>>
    /\ file[2] # WriteRow(RowOf(saved[1], saved[1].samples[1], FALSE))

\* The cells of line 1 of the file, the header.
HeaderOf(lines) == IF lines = <<>> THEN <<>> ELSE ReadRow(lines[1])

\* Line n is a data row whose field count differs from the header's.
Misshapen(lines, n) ==
    /\ n \in 2..Len(lines)
    /\ Len(ReadRow(lines[n])) # Len(HeaderOf(lines))

\* The rows before line n are valid: each has as many fields as the header, and
\* no two of them carry the same id.
ValidBefore(lines, n) ==
    /\ \A k \in 2..(n - 1) : ~Misshapen(lines, k)
    /\ \A k, m \in 2..(n - 1) :
         (k # m /\ RowId(ReadRow(lines[k])) # <<>>) =>
             RowId(ReadRow(lines[k])) # RowId(ReadRow(lines[m]))

\* The header has a non-blank first cell and names Forward and Reverse.
HeaderComplete(lines) ==
    /\ HeaderOf(lines) # <<>>
    /\ Strip(HeaderOf(lines)[1]) # <<>>
    /\ REQUIRED_COLUMNS \subseteq ColNames(HeaderOf(lines))

InvalidFileRule(lines) ==
    /\ ret.kind # "ok" => ret.sheet = Nothing
    /\ (lines # <<>> /\ ~(REQUIRED_COLUMNS \subseteq ColNames(HeaderOf(lines)))) =>
           ret.kind = "SchemaError"
    /\ \A n \in 2..Len(lines) :
           (HeaderComplete(lines) /\ Misshapen(lines, n) /\ ValidBefore(lines, n)) =>
               ret = Returned("RowShapeError", Nothing, n)

\* C10 (as stated): load_from_file returns no registry at all when the file is
\* invalid: a header lacking Forward or Reverse fails with SchemaError, and a
\* data row whose field count differs from the header's fails with
\* RowShapeError carrying the row's 1-based line number (the header is line 1),
\* even when earlier rows were valid.
C10_InvalidFileNoRegistry == op = "load" => InvalidFileRule(file)

\* Lemma: the rule for invalid files does hold of every file whose first
\* line is not blank.
InvalidFileRuleWhenFirstLineNotBlank ==
    (op = "load" /\ file # <<>> /\ file[1] # <<>>) => InvalidFileRule(file)

InvalidFileRuleWitness ==
    /\ op = "load" /\ HeaderComplete(file) /\ Len(file) = 3
    /\ ~Misshapen(file, 2) /\ RowId(ReadRow(file[2])) # <<>>
    /\ Misshapen(file, 3)
    /\ ret = Returned("RowShapeError", Nothing, 3)
    /\ sheet = EmptySheet

SchemaErrorWitness ==
    /\ op = "load" /\ Len(file) = 2
    /\ file[1] = WriteRow(<<ID, Forward>>)
    /\ ret.kind = "SchemaError"

\* The lines of a file from its first non-blank line on.
RECURSIVE DropBlankLines(_)
DropBlankLines(lines) ==
    IF lines # <<>> /\ Head(lines) = <<>> THEN DropBlankLines(Tail(lines)) ELSE lines

\* C11 (as stated): load_from_file takes the first non-blank line of the file
\* as the header: blank lines before the header are skipped (the file loads as
\* it does without them), and the first cell of that header names the ID column
\* and must be non-blank, otherwise the load fails with a schema error.
C11_FirstNonBlankLineIsHeader ==
    (op = "load" /\ DropBlankLines(file) # <<>>) =>
        LET body == DropBlankLines(file)
            header == ReadRow(body[1])
        IN /\ ret.kind = LoadFromFile(body).kind
           /\ ret.sheet = LoadFromFile(body).sheet
           /\ Strip(header[1]) = <<>> => ret.kind = "SchemaError"
           /\ ret.kind = "ok" => ret.sheet[1].columns = header

\* Lemma: of a file whose first line is not blank, the first line is the header
\* and its first cell must be non-blank.
FirstLineIsHeader ==
    (op = "load" /\ file # <<>> /\ file[1] # <<>>) =>
        /\ Strip(ReadRow(file[1])[1]) = <<>> => ret.kind = "SchemaError"
        /\ ret.kind = "ok" => ret.sheet[1].columns = ReadRow(file[1])

\* Every data row has as many fields as the header.
WellShaped(lines) == \A n \in 2..Len(lines) : ~Misshapen(lines, n)

\* The lines of the data rows that carry an id, in file order.
IdLines(lines) ==
    LET RECURSIVE From(_)
        From(n) == IF n > Len(lines) THEN <<>>
                   ELSE IF RowId(ReadRow(lines[n])) = <<>> THEN From(n + 1)
                   ELSE <<n>> \o From(n + 1)
    IN From(2)

\* The sample that a data row describes under the header.
SampleOfRow(headers, row) ==
    LET reverse == row[ColIdx(headers, Reverse)]
    IN Sample(RowId(row),
              PathOf(row[ColIdx(headers, Forward)]),
              IF Strip(reverse) = <<>> THEN Nothing ELSE Some(PathOf(reverse)),
              [col \in {c \in ColNames(headers) \ REQUIRED_COLUMNS : c # headers[1]} |->
                  row[ColIdx(headers, col)]])

\* The file has a complete header, well-shaped rows, no id twice, and a row
\* whose ID cell is blank.
HasBlankIdRow(lines) ==
    /\ HeaderComplete(lines)
    /\ WellShaped(lines)
    /\ \A i, k \in 1..Len(IdLines(lines)) :
         RowId(ReadRow(lines[IdLines(lines)[i]])) = RowId(ReadRow(lines[IdLines(lines)[k]]))
             => i = k
    /\ \E n \in 2..Len(lines) : RowId(ReadRow(lines[n])) = <<>>

-----------------------------------------------------------------------------
(* Properties of the registry operations                                    *)

\* The registries at hand: the sheet, and the one that sort has just returned.
Registries == {sheet} \cup (IF ret.sheet = Nothing THEN {} ELSE {ret.sheet[1]})

\* The column set minus the ID column, Forward and Reverse.
NonReserved(columns) ==
    {columns[i] : i \in 1..Len(columns)}
        \ ({columns[i] : i \in {k \in {1} : k <= Len(columns)}} \cup REQUIRED_COLUMNS)

AttributesMatchColumns(reg) ==
    \A i \in 1..Len(reg.samples) :
        DOMAIN reg.samples[i].attributes = NonReserved(reg.columns)

\* C13 (as stated): after any sequence of load_from_file, add_sample,
\* remove_sample and sort, sample ids are unique within the registry and every
\* sample's attribute key set equals the registry's column set minus
\* {ID column, Forward, Reverse}.
C13_RegistryInvariant ==
    \A reg \in Registries : UniqueIds(reg.samples) /\ AttributesMatchColumns(reg)

\* Lemma: the ids of a registry are unique after any sequence of operations.
IdsAlwaysUnique == \A reg \in Registries : UniqueIds(reg.samples)

IdsAlwaysUniqueWitness ==
    /\ op = "add" /\ ret.kind = "ok" /\ Len(sheet.samples) = 3

\* The column list has the ID column label first and names Forward and Reverse.
ColumnsComplete(columns) ==
    /\ columns # <<>>
    /\ columns[1] \notin REQUIRED_COLUMNS
    /\ REQUIRED_COLUMNS \subseteq {columns[i] : i \in 1..Len(columns)}

\* C14 (as stated): every registry reachable through the public operations,
\* including the registry that make-mapping builds and then saves, has an
\* ordered column list whose first entry is the ID column label and which
\* contains Forward and Reverse; hence the header written by save_to_file
\* always contains those columns.
C14_ColumnInvariant ==
    /\ ColumnsComplete(sheet.columns)
    /\ op \in {"save", "make_mapping"} /\ saved # Nothing =>
           REQUIRED_COLUMNS \subseteq ColNames(HeaderOf(file))

\* make-mapping has saved a mapping file whose header line is blank and whose
\* rows hold nothing but the sample id.
MakeMappingWritesNoColumns ==
    /\ op = "make_mapping" /\ ret.kind = "ok"
    /\ Len(sheet.samples) = 2
    /\ file = << <<>>, <<"a">>, <<"b">> >>

\* s <= t in lexicographic order: s is a prefix of t, or s has the smaller
\* character where they first differ.
LexLeq(s, t) ==
    \/ Len(s) <= Len(t) /\ \A i \in 1..Len(s) : s[i] = t[i]
    \/ \E i \in 1..Len(s) :
         /\ i <= Len(t)
         /\ \A k \in 1..(i - 1) : s[k] = t[k]
         /\ Code(s[i]) < Code(t[i])

\* sort has returned a new registry for the criterion by-id or by-forward-path.
SortReturned == op = "sort" /\ ret.kind = "ok"

SamplesOf(reg) == {reg.samples[i] : i \in 1..Len(reg.samples)}

\* The text that the criterion compares: the id, or the forward path.
SortText(sample, by) ==
    IF Lower(by) = "sample_id" THEN sample.id ELSE sample.forward

\* The samples iterate in non-decreasing order of the criterion's text.
InOrder(samples, by) ==
    \A i, k \in 1..Len(samples) :
        i < k => LexLeq(SortText(samples[i], by), SortText(samples[k], by))

\* C15: sort(criterion) returns a registry holding exactly the samples of the
\* original (same ids, forward, reverse, attributes; none lost, none added),
\* iterating in non-decreasing lexicographic order of the id string for by-id
\* or of the forward-path text for by-forward-path, with the same column order
\* as the original.
C15_SortedSameSamples ==
    SortReturned =>
        LET new == ret.sheet[1]
        IN /\ SamplesOf(new) = SamplesOf(sheet)
           /\ Len(new.samples) = Len(sheet.samples)
           /\ InOrder(new.samples, arg.by)
           /\ new.columns = sheet.columns

C15_Witness ==
    /\ SortReturned /\ arg.by = "sample_id"
    /\ Len(sheet.samples) = 3
    /\ sheet.columns # <<>>
    /\ ~InOrder(sheet.samples, "sample_id")
    /\ InOrder(sheet.samples, "forward_read")
    /\ \E i \in 1..3 : sheet.samples[i].attributes # <<>>

\* C16: sort leaves the original registry untouched: after sort returns, the
\* original's column list, samples, sample field values and iteration order are
\* the same as before the call, and the registry returned is another one than
\* the original (it is handed back to the caller; the original is not replaced).
C16_SortLeavesOriginal ==
    [][op' = "sort" =>
          /\ sheet' = sheet
          /\ ret'.kind = "ok" => ret'.sheet = Some(Sort(sheet, arg'.by).sheet[1])]_vars

C16_Witness ==
    /\ SortReturned
    /\ Len(sheet.samples) = 3
    /\ ret.sheet[1].samples # sheet.samples
    /\ ret.sheet[1].columns = sheet.columns /\ sheet.columns # <<>>

\* The registry at hand is one that sort(by-id) returned.
SortedById == origin = "sample_id"

\* C17: sort(by-id) is idempotent: sort(by-id) applied to a registry that
\* sort(by-id) returned yields the same iteration order.
C17_SortIdempotent ==
    (SortedById /\ SortReturned /\ Lower(arg.by) = "sample_id") =>
        ret.sheet[1].samples = sheet.samples

C17_Witness ==
    /\ SortedById /\ SortReturned /\ Lower(arg.by) = "sample_id"
    /\ Len(sheet.samples) = 3
    /\ \E i \in 1..2 :
         StrLess(sheet.samples[i + 1].forward, sheet.samples[i].forward)

\* The ids of a registry in iteration order.
IdSeq(reg) == [i \in 1..Len(reg.samples) |-> reg.samples[i].id]

\* C18: get_sample(id), remove_sample(id) and get_sample_attr(id, attr) fail
\* with NotFound when id is not in the registry and leave the registry
\* unchanged, whereas get_sample_attr(id, attr) for a known id and an attribute
\* name the sample does not have returns the absent value (None) without
\* raising.
C18_LookupsNotFound ==
    [][/\ (op' \in {"get_sample", "remove", "get_sample_attr"}
              /\ arg'.id \notin Ids(sheet)) =>
           (ret'.kind = "NotFound" /\ got' = NoValue /\ sheet' = sheet)
       /\ (op' = "get_sample_attr" /\ arg'.id \in Ids(sheet)) =>
           /\ ret'.kind = "ok" /\ sheet' = sheet
           /\ arg'.attr \notin DOMAIN SampleOf(sheet, arg'.id).attributes =>
                  got'.attr = Nothing
           /\ arg'.attr \in DOMAIN SampleOf(sheet, arg'.id).attributes =>
                  got'.attr = Some(SampleOf(sheet, arg'.id).attributes[arg'.attr])]_vars

C18_Witness ==
    /\ op = "get_sample_attr" /\ ret.kind = "ok" /\ got.attr = Nothing
    /\ arg.id \in Ids(sheet)
    /\ arg.attr = Group
    /\ \E i \in 1..Len(sheet.samples) : Group \in DOMAIN sheet.samples[i].attributes
    /\ \E id \in RegIds : id \notin Ids(sheet)

\* C19: add_sample(id, ...) with an id already present in the registry fails
\* with DuplicateKey and leaves the registry unchanged: the existing sample
\* keeps its forward, reverse and attributes, and the sample count and the
\* iteration order do not change.
C19_DuplicateKey ==
    [][(op' = "add" /\ arg'.id \in Ids(sheet)) =>
           (ret'.kind = "DuplicateKey" /\ sheet' = sheet)]_vars

C19_Witness ==
    /\ op = "add" /\ ret.kind = "DuplicateKey"
    /\ Len(sheet.samples) = 2
    /\ arg.id = sheet.samples[1].id
    /\ sheet.samples[1].attributes # <<>>

\* The ids of the rows of the file that carry an id, in row order.
RowIds(lines) == [i \in 1..Len(IdLines(lines)) |-> RowId(ReadRow(lines[IdLines(lines)[i]]))]

\* C20: iteration order equals insertion order after any sequence of
\* add_sample and remove_sample: a successful add_sample puts its id last, a
\* remove_sample takes its id out and keeps the others in order (so a removed
\* and re-added id iterates last), a failed call and a lookup change nothing;
\* a registry from load_from_file iterates in file row order and one from sort
\* in sorted order.
C20_InsertionOrder ==
    [][/\ (op' = "add" /\ ret'.kind = "ok") =>
              IdSeq(sheet') = Append(IdSeq(sheet), arg'.id)
       /\ (op' = "remove" /\ ret'.kind = "ok") =>
              IdSeq(sheet') = LET Other(i) == i # arg'.id IN SelectSeq(IdSeq(sheet), Other)
       /\ (op' \in {"add", "remove"} /\ ret'.kind # "ok") => IdSeq(sheet') = IdSeq(sheet)
       /\ op' \in {"get_sample", "get_sample_attr", "sort"} => IdSeq(sheet') = IdSeq(sheet)
       /\ (op' = "load" /\ ret'.kind = "ok") => IdSeq(sheet') = RowIds(file)
       /\ (op' = "sort" /\ ret'.kind = "ok") => InOrder(ret'.sheet[1].samples, arg'.by)
       /\ op' = "rebind" => (sheet' = ret.sheet[1] /\ InOrder(sheet'.samples, arg'.by))]_vars

\* Sample b, loaded before sample a, was removed and added again: it is last.
C20_Witness ==
    /\ op = "add" /\ ret.kind = "ok" /\ arg.id = <<"b">>
    /\ sheet.columns = <<ID, Forward, Reverse, Group>>
    /\ RowIds(file) = << <<"b">>, <<"a">> >>
    /\ IdSeq(sheet) = << <<"a">>, <<"b">> >>
    /\ sheet.samples[1].attributes[Group] = <<>>

-----------------------------------------------------------------------------
(* Properties of the sample id sanitisation                                 *)

\* The raw id with the prefix word and the filler in front when it starts
\* with a digit.
Prefixed(raw, filler) ==
    IF raw[1] \in {"0", "1", "2", "3", "4", "5", "6", "7", "8", "9"}
    THEN <<"S", "a", "m", "p", "l", "e">> \o filler \o raw
    ELSE raw

\* The base name of a raw id, for a filler of one character.
Sanitised(raw, filler) ==
    [i \in 1..Len(Prefixed(raw, filler)) |->
        IF IsAlnum(Prefixed(raw, filler)[i]) THEN Prefixed(raw, filler)[i] ELSE filler[1]]

\* How many of the first k calls had the base name of call k.
Occurrence(k) ==
    Cardinality({i \in 1..k : Sanitised(final_ids[i].raw, opts.safe_char)
                              = Sanitised(final_ids[k].raw, opts.safe_char)})

\* C21: with one shared accumulator, the result of every call is the base
\* name of its raw id (prefix word and filler in front of a leading digit,
\* then every character that is not an ASCII letter or digit replaced by the
\* filler), with no suffix at the first occurrence of that base name and with
\* the decimal number k-1 at its k-th occurrence; "123_sample" with filler "_"
\* gives "Sample_123_sample".
C21_SanitisedName ==
    /\ \A k \in 1..Len(final_ids) :
          final_ids[k].final =
              Sanitised(final_ids[k].raw, opts.safe_char)
              \o (IF Occurrence(k) = 1 THEN <<>> ELSE Decimal(Occurrence(k) - 1))
    /\ \A k \in 1..Len(final_ids) :
          (final_ids[k].raw = Example /\ opts.safe_char = <<"_">> /\ Occurrence(k) = 1) =>
              final_ids[k].final = <<"S", "a", "m", "p", "l", "e", "_", "1", "2", "3", "_",
                                     "s", "a", "m", "p", "l", "e">>

\* Three different raw ids with one base name: the third one gets suffix "2";
\* before them the example id was renamed.
C21_Witness ==
    /\ Len(final_ids) = 3
    /\ opts.safe_char = <<"_">>
    /\ final_ids[1].raw # final_ids[2].raw
    /\ final_ids[2].raw # final_ids[3].raw
    /\ final_ids[1].raw # final_ids[3].raw
    /\ final_ids[1].final = <<"a", "_">>
    /\ final_ids[2].final = <<"a", "_", "1">>
    /\ final_ids[3].final = <<"a", "_", "2">>

\* C22: the identifiers returned for pairwise distinct raw ids are pairwise
\* distinct, in every processing order.
C22_DuplicateSafe ==
    \A i, k \in 1..Len(final_ids) :
        final_ids[i].raw # final_ids[k].raw => final_ids[i].final # final_ids[k].final

\* Raw ids with different base names get different identifiers when no base
\* name of the run ends with a digit.
DistinctWithoutDigitEnd ==
    (\A i \in 1..Len(final_ids) :
        LET b == Sanitised(final_ids[i].raw, opts.safe_char)
        IN ~IsDigit(b[Len(b)])) =>
    \A i, k \in 1..Len(final_ids) : i # k => final_ids[i].final # final_ids[k].final

-----------------------------------------------------------------------------
(* Properties of the directory scan of make-mapping                         *)

\* s without the first occurrence of the substring t, if there is one.
WithoutFirst(s, t) ==
    IF t = <<>> \/ ~Contains(s, t) THEN s
    ELSE SubSeq(s, 1, Find(s, t) - 1) \o SubSeq(s, Find(s, t) + Len(t), Len(s))

\* The files that sit in a slot of read_pairs, with the sample id of the slot.
Paired ==
    {[id |-> read_pairs[i].id, path |-> read_pairs[i].forward[1]] :
        i \in {k \in 1..Len(read_pairs) : read_pairs[k].forward # Nothing}}
    \cup
    {[id |-> read_pairs[i].id, path |-> read_pairs[i].reverse[1]] :
        i \in {k \in 1..Len(read_pairs) : read_pairs[k].reverse # Nothing}}

\* C23: only the first occurrence of the non-empty strip substring is taken
\* out of the extension-stripped file name; the sample id is derived from the
\* name that keeps the later occurrences.
C23_StripFirstOccurrence ==
    \A x \in Paired :
        x.id = TagOf(WithoutFirst(DropLast(NameOf(x.path), Len(opts.ext)), opts.strip),
                     opts.tag_for, opts.tag_rev).sample_name[1]

\* The sample id is derived from the name without any occurrence of the strip
\* substring.
StripEveryOccurrence ==
    \A x \in Paired :
        (opts.strip # <<>> /\ x.id # <<>>) => ~Contains(x.id, opts.strip)

\* The name on which the tags are looked for.
Remaining(path) ==
    LET stem == SubSeq(NameOf(path), 1, Len(NameOf(path)) - Len(opts.ext))
    IN IF opts.strip = <<>> THEN stem ELSE Replace(stem, opts.strip)

\* tag occurs in name at position i and nowhere before.
FirstAt(name, tag, i) ==
    /\ i \in 1..(Len(name) - Len(tag) + 1)
    /\ SubSeq(name, i, i + Len(tag) - 1) = tag
    /\ \A k \in 1..(i - 1) : SubSeq(name, k, k + Len(tag) - 1) # tag

Occurs(name, tag) == \E i \in 1..Len(name) : FirstAt(name, tag, i)

Ignored(path) ==
    \/ ~EndsWith(NameOf(path), opts.ext)
    \/ ~Occurs(Remaining(path), opts.tag_for) /\ ~Occurs(Remaining(path), opts.tag_rev)

\* The file is of the given direction for the sample id.
ClassifiedAs(path, id, type) ==
    /\ EndsWith(NameOf(path), opts.ext)
    /\ \E i \in 1..Len(Remaining(path)) :
          /\ id = SubSeq(Remaining(path), 1, i - 1)
          /\ \/ type = "forward" /\ FirstAt(Remaining(path), opts.tag_for, i)
             \/ /\ type = "reverse"
                /\ ~Occurs(Remaining(path), opts.tag_for)
                /\ FirstAt(Remaining(path), opts.tag_rev, i)

SlotOf(pairs, id, type) ==
    IF PairIdx(pairs, id) = 0 THEN Nothing ELSE Slot(pairs[PairIdx(pairs, id)], type)

\* C24: a file is classified only if its name ends with the extension; on the
\* remaining name the forward tag is looked for first, then the reverse tag,
\* and the sample id is the text before the first occurrence of the tag found;
\* a file with neither tag is ignored.  The file goes into the slot of its
\* sample id and direction, or is reported as the new file of a taken slot.
C24_Classification ==
    [][scanned' = scanned + 1 =>
         LET path == dir[scanned + 1]
         IN /\ Ignored(path) => UNCHANGED <<read_pairs, status, stderr>>
            /\ \A type \in {"forward", "reverse"} :
                 \A n \in 1..(IF Ignored(path) THEN 0 ELSE Len(Remaining(path))) :
                    LET id == SubSeq(Remaining(path), 1, n)
                    IN ClassifiedAs(path, id, type) =>
                          \/ /\ SlotOf(read_pairs', id, type) = Some(path)
                             /\ SlotOf(read_pairs, id, type) = Nothing
                          \/ /\ status' = "exit1"
                             /\ stderr'[1].id = id /\ stderr'[1].type = type
                             /\ stderr'[1].new = path]_vars

\* A_1.q and A_2.q give one sample A with both reads, and A_2_1.q, which holds
\* both tags, is the forward file of sample A_2.
C24_Witness ==
    /\ scanned = 3
    /\ opts.strip = <<>>
    /\ read_pairs = << PairOf(<<"A">>, Some(<<"A", "_", "1", ".", "q">>),
                                       Some(<<"A", "_", "2", ".", "q">>)),
                       PairOf(<<"A", "_", "2">>,
                              Some(<<"A", "_", "2", "_", "1", ".", "q">>), Nothing) >>

\* C25: every slot (sample id, direction) is filled at most once: a second
\* file for a slot ends the scan with a DuplicateFile error that names the
\* existing path and the new path, the first file stays in its slot, and no
\* pairing result is used: no sheet is built and no mapping is written.
C25_DuplicateFile ==
    [][scanned' = scanned + 1 =>
         LET path == dir[scanned + 1]
         IN \A type \in {"forward", "reverse"} :
              \A i \in 1..Len(read_pairs) :
                 Slot(read_pairs[i], type) # Nothing =>
                    /\ Slot(read_pairs'[i], type) = Slot(read_pairs[i], type)
                    /\ ClassifiedAs(path, read_pairs[i].id, type) =>
                          /\ status' = "exit1"
                          /\ stderr' = <<Msg("DuplicateFile", read_pairs[i].id, type,
                                             Slot(read_pairs[i], type)[1], path)>>
                          /\ read_pairs' = read_pairs
                          /\ UNCHANGED <<sheet, file, saved>>]_vars

C25_Witness ==
    /\ status = "exit1"
    /\ stderr = <<Msg("DuplicateFile", <<"A">>, "forward",
                      <<"A", "_", "1", ".", "q">>,
                      <<"d", SLASH, "A", "_", "1", ".", "q">>)>>
    /\ sheet = EmptySheet /\ file = <<>> /\ op = "None"

\* cli has gone through the sample loop after a full scan.
FullyScanned == op = "make_mapping"

Reports(m) == \E k \in 1..Len(stderr) : stderr[k] = m

MissingForward(id) == Msg("MissingForward", id, "forward", <<>>, <<>>)

LacksForward == {i \in 1..Len(read_pairs) : read_pairs[i].forward = Nothing}

\* C26: a sample id with a reverse file and no forward file after the full
\* scan is reported as a MissingForward error that names it, and make-mapping
\* exits non-zero without writing a mapping, also when that sample is the only
\* one found; a sample with a forward file and no reverse file is accepted.
C26_MissingForward ==
    FullyScanned =>
        /\ \A i \in LacksForward :
              /\ Reports(MissingForward(read_pairs[i].id))
              /\ status = "exit1"
              /\ file = <<>>
        /\ (LacksForward = {} /\ errors = <<>> /\ read_pairs # <<>>) =>
              (status = "exit0" /\ Len(sheet.samples) = Len(read_pairs))

\* The same for the runs in which at least one sample has a forward file.
MissingForwardBesideValidSample ==
    (FullyScanned /\ LacksForward # DOMAIN read_pairs) =>
        /\ \A i \in LacksForward :
              /\ Reports(MissingForward(read_pairs[i].id))
              /\ status = "exit1"
              /\ file = <<>>
        /\ (LacksForward = {} /\ errors = <<>>) =>
              (status = "exit0" /\ Len(sheet.samples) = Len(read_pairs))

\* Without a forward file the command exits with status 1 and writes nothing.
MissingForwardExits ==
    (FullyScanned /\ LacksForward # {}) => (status = "exit1" /\ file = <<>>)

MissingForwardBesideValidSampleWitness ==
    /\ FullyScanned
    /\ LacksForward # {} /\ LacksForward # DOMAIN read_pairs
    /\ \E i \in DOMAIN read_pairs : read_pairs[i].forward # Nothing /\ read_pairs[i].reverse = Nothing

\* Every pairing error of a directory listing: the scan goes on after a
\* DuplicateFile error, the first file keeping its slot, and the samples
\* without a forward file follow.
RECURSIVE EveryDuplicate(_, _, _)
EveryDuplicate(files, pairs, found) ==
    IF files = <<>> THEN [pairs |-> pairs, found |-> found]
    ELSE LET step == ScanStep(pairs, Head(files), opts)
         IN EveryDuplicate(Tail(files), step.pairs, found \o step.raised)

EveryPairingError ==
    LET scan == EveryDuplicate(dir, <<>>, <<>>)
        lacking == SelectSeq(scan.pairs, LAMBDA x : x.forward = Nothing)
    IN scan.found \o [i \in 1..Len(lacking) |-> MissingForward(lacking[i].id)]

\* The pairing errors a run has come upon: the DuplicateFile error that ended
\* the scan, or the MissingForward errors gathered in errors.
ReportedPairingErrors ==
    SelectSeq(stderr, LAMBDA x : x.kind = "DuplicateFile")
    \o SelectSeq(errors, LAMBDA x : x.kind = "MissingForward")

Exited == status \in {"exit0", "exit1"}

\* What a run reports in a mode.
ReportOf(mode) ==
    IF mode = "fail_fast" /\ EveryPairingError # <<>>
    THEN <<EveryPairingError[1]>>
    ELSE EveryPairingError

\* The modes a caller can ask for.  No option of the command tells them
\* apart, so a run is the run of either choice.
ErrorModes == {"fail_fast", "collect_all"}

\* C27: the caller selects the error mode of the directory pairing: in
\* fail-fast mode the first pairing error (DuplicateFile or MissingForward)
\* ends the operation, in collect-all mode every DuplicateFile and
\* MissingForward error of the directory is reported together.
C27_BothErrorModes ==
    Exited => \A mode \in ErrorModes : ReportedPairingErrors = ReportOf(mode)

\* A DuplicateFile error is reported alone and at once.
DuplicateFileFailsFast ==
    (Exited /\ EveryPairingError # <<>> /\ EveryPairingError[1].kind = "DuplicateFile") =>
        ReportedPairingErrors = ReportOf("fail_fast")

\* MissingForward errors are reported together when a sample was found.
MissingForwardCollected ==
    (Exited /\ EveryPairingError # <<>> /\ EveryPairingError[1].kind = "MissingForward"
            /\ sheet.samples # <<>>) =>
        ReportedPairingErrors = ReportOf("collect_all")

DuplicateFileFailsFastWitness ==
    /\ Exited /\ Len(EveryPairingError) = 2
    /\ EveryPairingError[1].kind = "DuplicateFile"
    /\ EveryPairingError[2].kind = "MissingForward"

MissingForwardCollectedWitness ==
    /\ Exited /\ Len(EveryPairingError) = 2
    /\ EveryPairingError[1].kind = "MissingForward"
    /\ sheet.samples # <<>>

\* The whole command on a directory listing.
RECURSIVE Collected(_, _)
Collected(files, pairs) ==
    IF files = <<>> THEN [pairs |-> pairs, raised |-> Nothing]
    ELSE LET step == ScanStep(pairs, Head(files), opts)
         IN IF step.raised # Nothing THEN step ELSE Collected(Tail(files), step.pairs)

\* The final id of every forward file when the listing gives a mapping.
AssignedOn(listing) ==
    LET scan == Collected(listing, <<>>)
        b == AddPairs(Built(EmptySheet, <<>>, <<>>, <<>>), scan.pairs, opts)
    IN IF scan.raised # Nothing \/ b.errors # <<>> \/ b.sheet.samples = <<>>
       THEN {}
       ELSE {<<b.sheet.samples[i].forward, b.sheet.samples[i].id>> :
                i \in 1..Len(b.sheet.samples)}

Assigned == {<<sheet.samples[i].forward, sheet.samples[i].id>> : i \in 1..Len(sheet.samples)}

Orders(listing) ==
    {l \in [1..Len(listing) -> Range(listing)] : Range(l) = Range(listing)}

\* C28: for a fixed set of files the final id of every file pair is the same
\* in every order in which the directory scan returns the files.
C28_ReproducibleIds ==
    status = "exit0" => \A l \in Orders(dir) : AssignedOn(l) = Assigned

\* With --dont-rename the ids do not depend on the order of the scan.
ReproducibleWithoutRename ==
    (status = "exit0" /\ opts.dont_rename) => \A l \in Orders(dir) : AssignedOn(l) = Assigned

ReproducibleWithoutRenameWitness ==
    /\ status = "exit0" /\ opts.dont_rename /\ Len(sheet.samples) = 3
    /\ sheet.samples[1].id # IdSeq(AddPairs(Built(EmptySheet, <<>>, <<>>, <<>>),
                                            read_pairs, opts).sheet)[1]

-----------------------------------------------------------------------------
(* Properties of the merge batch                                            *)

JobFailed(j) ==
    pc[j] = "done" /\ outcome[j].kind \in {"FailedInput", "FailedProcess", "FailedOutput"}

\* C29: one Job is run per sample, one after the other in the order of the
\* registry; at the first Job that fails (InputMissing, ProcessFailed or
\* OutputMissing) the command exits with a non-zero status, no Job of a later
\* sample is run, and the final output file is not created.
C29_BatchStopsAtFirstFailure ==
    /\ \A j \in Jobs : runs[j] <= 1
    /\ \A j, k \in Jobs :
          (j < k /\ runs[k] > 0) => (pc[j] = "done" /\ outcome[j].kind = "Succeeded")
    /\ \A j \in Jobs :
          JobFailed(j) =>
              /\ status \in {"running", "exit1"}
              /\ status = "running" => ENABLED MergeFail(j)
              /\ ~ENABLED MergeConcat
              /\ \A k \in Jobs : k > j => (runs[k] = 0 /\ ~ENABLED MergeRun(k))
              /\ ~merge.output
    /\ status = "exit0" => \A j \in Jobs : runs[j] = 1 /\ outcome[j].kind = "Succeeded"

\* The Job of the first sample has failed and the command has exited, while
\* the Job of the second sample would have succeeded.
C29_Witness ==
    /\ JobFailed(1) /\ status = "exit1"
    /\ outcome[1].kind = "FailedOutput"
    /\ runs[2] = 0 /\ pc[2] = "idle"
    /\ Range(job[2].required_input) \subseteq fs
    /\ job[2].spawnable /\ job[2].exit = 0 /\ job[2].creates = {Tmp[2].output}
    /\ ~merge.output

\* Both Jobs have succeeded and the output file is written.
MergeSucceedsWitness ==
    status = "exit0" /\ merge.output /\ merge.outputs = <<Tmp[1].output, Tmp[2].output>>

-----------------------------------------------------------------------------
(* Required outputs and the execution that made them                        *)

\* C30: when run() returns successfully, every required output was created by
\* this execution: a file that was there before run() and that the process
\* did not create does not satisfy the output check.
C30_OutputsCreatedByRun ==
    \A j \in Jobs :
        (Done(j) /\ outcome[j].kind = "Succeeded") =>
            Range(job[j].required_output) \subseteq job[j].creates

\* What _validate_outputs does establish: at a successful return every
\* required output exists.
SucceededOutputsExist ==
    \A j \in Jobs :
        (Done(j) /\ outcome[j].kind = "Succeeded") =>
            Range(job[j].required_output) \subseteq fs

\* A run has succeeded on an output that only existed beforehand.
SucceededOnStaleOutput ==
    \E j \in Jobs :
        /\ Done(j) /\ outcome[j].kind = "Succeeded"
        /\ \E p \in Range(job[j].required_output) : p \in fs0 /\ p \notin job[j].creates

====
